---- MODULE Spec2Model ----
(***************************************************************************)
(* A model of coredns-hosts-api: the Corefile normalizer of the installer  *)
(* (BuildNewCoreFile), the retry-on-conflict call sites of the installer   *)
(* and of the record store, and the configmap controller that writes the   *)
(* hosts file.                                                             *)
(***************************************************************************)
EXTENDS Integers, Sequences, FiniteSets, TLC

(***************************************************************************)
(* Bounds of the model.                                                    *)
(***************************************************************************)
\* lines per server block of an input Corefile
MaxLines == 3
\* server blocks of an input Corefile
MaxBlocks == 2
\* lines of an input Corefile that has several server blocks, all blocks together
MaxSpread == 2

(***************************************************************************)
(* Part 1.  The Corefile as text: a sequence of tokens, each with the line *)
(* it stands on, as caddyfile's lexer produces them.                       *)
(***************************************************************************)
hostsPath == "/etc/coredns-dir/hosts"

Tok(text, line) == [Text |-> text, Line |-> line]

\* An element of a JSON line ([]interface{}): a string or a nested block.
Str(s) == [kind |-> "str", val |-> s]
Blk(b) == [kind |-> "blk", val |-> b]

\* sort.Strings orders byte-wise; the names the model uses, in that order.
\* "" is the zero value make([]string, n) fills the slice with.
NameOrder == <<"", "errors", "hosts", "log">>

Rank(s) == CHOOSE i \in 1..Len(NameOrder) : NameOrder[i] = s

\* caddyfile.Dispenser.Next: cursor c (0 = before the first token).
DNext(toks, c) ==
    IF c < Len(toks) THEN [ok |-> TRUE, c |-> c + 1] ELSE [ok |-> FALSE, c |-> c]

\* caddyfile.Dispenser.NextArg: the next token, if it is on the same line.
DNextArg(toks, c) ==
    IF c = 0 THEN [ok |-> TRUE, c |-> 1]
    ELSE IF c > Len(toks) THEN [ok |-> FALSE, c |-> c]
    ELSE IF c < Len(toks) /\ toks[c].Line = toks[c + 1].Line
         THEN [ok |-> TRUE, c |-> c + 1]
         ELSE [ok |-> FALSE, c |-> c]

RECURSIVE constructLineArgs(_, _, _)
RECURSIVE constructBlockFrom(_, _, _)

\* the loop of constructLine: for d.NextArg() { ... }
constructLineArgs(toks, c, args) ==
    LET n == DNextArg(toks, c) IN
    IF ~n.ok THEN [args |-> args, c |-> c]
    ELSE IF toks[n.c].Text = "{"
         THEN LET b == constructBlockFrom(toks, n.c, <<>>) IN
              constructLineArgs(toks, b.c, Append(args, Blk(b.block)))
         ELSE constructLineArgs(toks, n.c, Append(args, Str(toks[n.c].Text)))

\* the loop of constructBlock: for d.Next() { if "}" break; append line }
constructBlockFrom(toks, c, block) ==
    LET n == DNext(toks, c) IN
    IF ~n.ok THEN [block |-> block, c |-> c]
    ELSE IF toks[n.c].Text = "}" THEN [block |-> block, c |-> n.c]
    ELSE LET l == constructLineArgs(toks, n.c, <<Str(toks[n.c].Text)>>) IN
         constructBlockFrom(toks, l.c, Append(block, l.args))

\* constructLine with the dispenser on token c: the line and the cursor after.
constructLine(toks, c) == constructLineArgs(toks, c, <<Str(toks[c].Text)>>)

constructBlock(toks, c) == constructBlockFrom(toks, c, <<>>)

ExistInterfaceSlice(val, item) ==
    \E i \in 1..Len(item) : item[i].kind = "str" /\ item[i].val = val

ExistStringSlice(val, item) == \E i \in 1..Len(item) : item[i] = val

\* sort.Strings, as an insertion sort on the byte order of the names
RECURSIVE InsertSorted(_, _)
InsertSorted(s, x) ==
    IF s = <<>> THEN <<x>>
    ELSE IF Rank(x) < Rank(Head(s)) THEN <<x>> \o s
    ELSE <<Head(s)>> \o InsertSorted(Tail(s), x)

RECURSIVE SortStrings(_)
SortStrings(s) ==
    IF s = <<>> THEN <<>> ELSE InsertSorted(SortStrings(Tail(s)), Head(s))

\* for dir := range sb.Tokens: the orders in which an iteration over a Go
\* map can yield its keys, which is every order
RECURSIVE MapKeys(_)
MapKeys(S) ==
    IF S = {} THEN {<<>>}
    ELSE UNION { { <<x>> \o r : r \in MapKeys(S \ {x}) } : x \in S }

(***************************************************************************)
(* caddyfile.Parse: the keys of each server block and, per directive name,  *)
(* the tokens of all its lines (nested bodies included) in the order of    *)
(* the text.  A text is the sequence of its lexed tokens; the texts        *)
(* considered hold no import directive, no {$VAR} placeholder and no       *)
(* quoted token, so doImport and the environment are never consulted.      *)
(***************************************************************************)
isNewLine(toks, n) == n <= 1 \/ (n <= Len(toks) /\ toks[n - 1].Line < toks[n].Line)

\* parser.directive: the tokens of one directive, from the token after c
RECURSIVE ParseDirective(_, _, _, _)
ParseDirective(toks, c, nesting, acc) ==
    IF c >= Len(toks) THEN [toks |-> acc, c |-> c, err |-> nesting > 0]
    ELSE LET n == c + 1
             t == toks[n].Text
         IN IF t = "{" THEN ParseDirective(toks, n, nesting + 1, Append(acc, toks[n]))
            ELSE IF isNewLine(toks, n) /\ nesting = 0
                 THEN [toks |-> acc, c |-> c, err |-> FALSE]
            ELSE IF t = "}" /\ nesting > 0
                 THEN ParseDirective(toks, n, nesting - 1, Append(acc, toks[n]))
            ELSE IF t = "}" /\ nesting = 0 THEN [toks |-> acc, c |-> n, err |-> TRUE]
            ELSE ParseDirective(toks, n, nesting, Append(acc, toks[n]))

AddTokens(m, dir, ts) ==
    IF dir \in DOMAIN m THEN [m EXCEPT ![dir] = @ \o ts] ELSE m @@ (dir :> ts)

\* Dispenser.Val: the text of the token under the cursor, "" off the tokens
Val(toks, c) == IF c < 1 \/ c > Len(toks) THEN "" ELSE toks[c].Text

\* parser.directives: for p.Next() { if p.Val() == "}" { break }; directive }
\* ends at the brace that closes the server block or at the last token
RECURSIVE ParseDirectives(_, _, _)
ParseDirectives(toks, c, m) ==
    LET n == DNext(toks, c) IN
    IF ~n.ok THEN [Tokens |-> m, c |-> c, err |-> FALSE]
    ELSE IF toks[n.c].Text = "}" THEN [Tokens |-> m, c |-> n.c, err |-> FALSE]
    ELSE LET d == ParseDirective(toks, n.c, 0, <<toks[n.c]>>) IN
         IF d.err THEN [Tokens |-> m, c |-> d.c, err |-> TRUE]
         ELSE ParseDirectives(toks, d.c, AddTokens(m, toks[n.c].Text, d.toks))

\* the texts a key can have in the model's Corefiles; "" is what is left of
\* a token that is a comma alone
KeyTexts == {"", ".:53", "example.org:53", "example.net:53"}

\* tkn[len(tkn)-1] == ',' and tkn[:len(tkn)-1], on the texts of the model
EndsWithComma(tkn) == \E k \in KeyTexts : tkn = k \o ","

TrimComma(tkn) == CHOOSE k \in KeyTexts : tkn = k \o ","

\* parser.addresses with the cursor on token c: the keys of the block up to
\* its "{", the end of the line or the end of the text; a trailing comma
\* asks for another key
RECURSIVE Addresses(_, _, _, _)
Addresses(toks, c, keys, expectingAnother) ==
    LET tkn == toks[c].Text IN
    IF tkn = "{"
    THEN [keys |-> keys, c |-> c, eof |-> FALSE, err |-> expectingAnother]
    ELSE LET comma == IF tkn = "" THEN expectingAnother ELSE EndsWithComma(tkn)
             ks == IF tkn = "" THEN keys
                   ELSE Append(keys, IF comma THEN TrimComma(tkn) ELSE tkn)
             n == DNext(toks, c)
         IN IF ~n.ok THEN [keys |-> ks, c |-> c, eof |-> TRUE, err |-> comma]
            ELSE IF ~comma /\ isNewLine(toks, n.c)
                 THEN [keys |-> ks, c |-> n.c, eof |-> FALSE, err |-> FALSE]
            ELSE Addresses(toks, n.c, ks, comma)

\* parser.blockContents with the cursor on the token after the keys: without
\* an opening brace the directives begin at that token, and only an opened
\* block is asked for its closing brace (closeCurlyBrace looks at the token
\* under the cursor)
BlockContents(toks, c) ==
    LET open == Val(toks, c) = "{"
        d == ParseDirectives(toks, IF open THEN c ELSE c - 1, <<>>)
    IN [Tokens |-> d.Tokens, c |-> d.c,
        err |-> d.err \/ (open /\ Val(toks, d.c) # "}")]

\* parser.parseAll: for p.Next() { parseOne }; a block is kept when it has a
\* key
RECURSIVE ParseBlocks(_, _, _)
ParseBlocks(toks, c, blocks) ==
    LET n == DNext(toks, c) IN
    IF ~n.ok THEN [blocks |-> blocks, err |-> FALSE]
    ELSE LET a == Addresses(toks, n.c, <<>>, FALSE) IN
         IF a.err THEN [blocks |-> blocks, err |-> TRUE]
         ELSE IF a.eof
         THEN [blocks |-> IF a.keys = <<>> THEN blocks
                          ELSE Append(blocks, [Keys |-> a.keys, Tokens |-> <<>>]),
               err |-> FALSE]
         ELSE LET b == BlockContents(toks, a.c) IN
              IF b.err THEN [blocks |-> blocks, err |-> TRUE]
              ELSE ParseBlocks(toks, b.c,
                       IF a.keys = <<>> THEN blocks
                       ELSE Append(blocks, [Keys |-> a.keys, Tokens |-> b.Tokens]))

Parse(text) == ParseBlocks(text, 0, <<>>)

(***************************************************************************)
(* caddyfile.FromJSON: the text of an encoded Corefile.  A block's key and *)
(* its opening brace share a line, every line of a body has a line of its  *)
(* own, so has every closing brace, and a blank line separates blocks.  A  *)
(* nil nested block is marshalled as null and written as nothing.          *)
(***************************************************************************)
\* a token is written at the end of the text so far: behind white space it
\* is a token of its own, behind the brace that closed a nested block it is
\* part of that brace's token (jsonToText writes no space there)
Written(st, text) ==
    IF st.glued /\ st.toks # <<>>
    THEN [st EXCEPT !.toks = [@ EXCEPT ![Len(@)].Text = @ \o text], !.glued = FALSE]
    ELSE [st EXCEPT !.toks = Append(@, Tok(text, st.line)), !.glued = FALSE]

RECURSIVE EmitItems(_, _, _)
RECURSIVE EmitLines(_, _)

\* jsonToText on a line, from item i on; st = [toks, line, glued]
EmitItems(items, i, st) ==
    IF i > Len(items) THEN st
    ELSE LET it == items[i] IN
         IF it.kind = "str" THEN EmitItems(items, i + 1, Written(st, it.val))
         ELSE IF it.val = <<>> THEN EmitItems(items, i + 1, [st EXCEPT !.glued = FALSE])
         ELSE LET open == [Written(st, "{") EXCEPT !.line = @ + 1]
                  body == EmitLines(it.val, open)
              IN EmitItems(items, i + 1,
                     [toks |-> Append(body.toks, Tok("}", body.line)),
                      line |-> body.line, glued |-> TRUE])

\* the lines of a body, one text line each
EmitLines(lines, st) ==
    IF lines = <<>> THEN st
    ELSE LET l == EmitItems(Head(lines), 1, st) IN
         EmitLines(Tail(lines), [l EXCEPT !.line = @ + 1, !.glued = FALSE])

\* the keys of a block, joined by ", ": every key but the last carries the
\* comma
RECURSIVE EmitKeys(_, _, _)
EmitKeys(keys, i, st) ==
    IF i > Len(keys) THEN st
    ELSE IF i < Len(keys) THEN EmitKeys(keys, i + 1, Written(st, keys[i] \o ","))
    ELSE IF keys[i] = "" THEN st
    ELSE Written(st, keys[i])

RECURSIVE EmitBlocks(_, _, _)
EmitBlocks(j, i, st) ==
    IF i > Len(j) THEN st.toks
    ELSE LET first == IF i > 1 THEN st.line + 2 ELSE st.line
             keys == EmitKeys(j[i].Keys, 1, [st EXCEPT !.line = first, !.glued = FALSE])
             open == [Written(keys, "{") EXCEPT !.line = @ + 1]
             body == EmitLines(j[i].Body, open)
         IN EmitBlocks(j, i + 1,
                [toks |-> Append(body.toks, Tok("}", body.line)), line |-> body.line,
                 glued |-> FALSE])

FromJSON(j) == EmitBlocks(j, 1, [toks |-> <<>>, line |-> 1, glued |-> FALSE])

(***************************************************************************)
(* BuildNewCoreFile                                                        *)
(***************************************************************************)
\* the hosts line of lines 367-376: the path is put in when it is not among
\* the line's own tokens
FixHostsItem(item) ==
    IF item[1].kind = "str" /\ item[1].val = "hosts" /\ ~ExistInterfaceSlice(hostsPath, item)
    THEN IF Len(item) = 1 THEN Append(item, Str(hostsPath))
         ELSE [item EXCEPT ![2] = Str(hostsPath)]
    ELSE item

HostsItemNeedsUpdate(item) ==
    item[1].kind = "str" /\ item[1].val = "hosts" /\ ~ExistInterfaceSlice(hostsPath, item)

\* for disp.Next() { item := constructLine(&disp); ... }: the lines of one
\* directive's tokens
RECURSIVE DirectiveLines(_, _, _)
DirectiveLines(toks, c, acc) ==
    LET n == DNext(toks, c) IN
    IF ~n.ok THEN acc
    ELSE LET l == constructLine(toks, n.c) IN DirectiveLines(toks, l.c, Append(acc, l.args))

TokensOf(sb, dir) == IF dir \in DOMAIN sb.Tokens THEN sb.Tokens[dir] ELSE <<>>

\* lines 345-352, when the iteration over sb.Tokens yields names
SortedDirectives(sb, names) ==
    LET empties == [i \in 1..Len(names) |-> ""]
        all == empties \o names
    IN SortStrings(IF ExistStringSlice("hosts", all) THEN all ELSE Append(all, "hosts"))

\* lines 355-387, for one directive name: the lines it adds to the body
BodyOfDirective(sb, dir) ==
    LET lines == DirectiveLines(TokensOf(sb, dir), 0, <<>>) IN
    IF dir = "hosts"
    THEN IF Len(TokensOf(sb, dir)) = 0 THEN <<<<Str("hosts"), Str(hostsPath)>>>>
         ELSE [i \in 1..Len(lines) |-> FixHostsItem(lines[i])]
    ELSE lines

NeedUpdateOfDirective(sb, dir) ==
    LET lines == DirectiveLines(TokensOf(sb, dir), 0, <<>>) IN
    /\ dir = "hosts"
    /\ \/ Len(TokensOf(sb, dir)) = 0
       \/ \E i \in 1..Len(lines) : HostsItemNeedsUpdate(lines[i])

RECURSIVE BodyOfDirectives(_, _)
BodyOfDirectives(sb, dirs) ==
    IF dirs = <<>> THEN <<>>
    ELSE BodyOfDirective(sb, Head(dirs)) \o BodyOfDirectives(sb, Tail(dirs))

\* lines 335-390, for one server block
EncodeServerBlock(sb, names) ==
    [Keys |-> sb.Keys, Body |-> BodyOfDirectives(sb, SortedDirectives(sb, names))]

NeedUpdateOfBlock(sb, names) ==
    LET dirs == SortedDirectives(sb, names) IN
    \E i \in 1..Len(dirs) : NeedUpdateOfDirective(sb, dirs[i])

\* the iterations of one call: for every server block an order of its
\* directive names
RECURSIVE IterationsOf(_, _)
IterationsOf(blocks, i) ==
    IF i > Len(blocks) THEN {<<>>}
    ELSE { <<names>> \o rest : names \in MapKeys(DOMAIN blocks[i].Tokens),
                               rest \in IterationsOf(blocks, i + 1) }

Iterations(corefile) ==
    IF Parse(corefile).err THEN {<<>>} ELSE IterationsOf(Parse(corefile).blocks, 1)

\* BuildNewCoreFile: the new text, needUpdate, and whether Parse failed,
\* when the map of block i is iterated in the order iter[i]
BuildNewCoreFile(corefile, iter) ==
    LET p == Parse(corefile) IN
    IF p.err THEN [text |-> <<>>, needUpdate |-> FALSE, err |-> TRUE]
    ELSE [text |-> FromJSON([i \in 1..Len(p.blocks) |->
                                EncodeServerBlock(p.blocks[i], iter[i])]),
          needUpdate |-> \E i \in 1..Len(p.blocks) : NeedUpdateOfBlock(p.blocks[i], iter[i]),
          err |-> FALSE]

\* what BuildNewCoreFile can return for a text
BuildResults(corefile) == { BuildNewCoreFile(corefile, iter) : iter \in Iterations(corefile) }


(***************************************************************************)
(* The Corefiles the normalizer is run on: texts in the layout FromJSON    *)
(* writes, of up to MaxBlocks server blocks.                               *)
(***************************************************************************)
otherPath == "/etc/hosts"

NestedBodies ==
    { <<<<Str("fallthrough")>>>>, <<<<Str(hostsPath)>>>>,
      <<<<Str(otherPath), Str("example.org")>>, <<Str("fallthrough")>>>> }

HostsArgs ==
    { <<>>, <<Str(hostsPath)>>, <<Str(otherPath)>>, <<Str(otherPath), Str(hostsPath)>> }

\* hosts lines: the arguments alone, no argument and a nested body, and one
\* line with arguments and a body for each body
HostsLineShapes ==
    { <<Str("hosts")>> \o a : a \in HostsArgs }
    \cup { <<Str("hosts"), Blk(b)>> : b \in NestedBodies }
    \cup { <<Str("hosts"), Str(hostsPath), Blk(<<<<Str("fallthrough")>>>>)>>,
           <<Str("hosts"), Str(otherPath), Blk(<<<<Str("fallthrough")>>>>)>> }

OtherLineShapes ==
    { <<Str("errors")>>, <<Str("log")>>,
      <<Str("log"), Str("."), Blk(<<<<Str("class"), Str("error")>>>>)>> }

LineShapes == HostsLineShapes \cup OtherLineShapes

BlockKeys == <<".:53", "example.org:53", "example.net:53">>

BodiesOfLength(n) == [1..n -> LineShapes]

\* the ways to give each of b blocks a number of lines, n lines in all
RECURSIVE Splits(_, _)
Splits(b, n) ==
    IF b = 0 THEN (IF n = 0 THEN {<<>>} ELSE {})
    ELSE UNION { { <<k>> \o r : r \in Splits(b - 1, n - k) } : k \in 0..n }

\* the documents whose block i has split[i] lines
RECURSIVE DocsOfSplit(_, _)
DocsOfSplit(split, i) ==
    IF i > Len(split) THEN {<<>>}
    ELSE { <<[Keys |-> <<BlockKeys[i]>>, Body |-> body]>> \o rest :
               body \in BodiesOfLength(split[i]), rest \in DocsOfSplit(split, i + 1) }

\* the documents of one block of up to lines lines, and of 2..blocks blocks
\* of up to spread lines together
InputDocuments(lines, blocks, spread) ==
    UNION { DocsOfSplit(<<n>>, 1) : n \in 0..lines }
    \cup UNION { UNION { DocsOfSplit(sp, 1) : sp \in Splits(b, n) } :
                     b \in 2..blocks, n \in 0..spread }
    \cup {<<>>}

\* the tokens of a text given as its lines, each a sequence of words
RECURSIVE TextOfLines(_, _)
TextOfLines(ls, first) ==
    IF ls = <<>> THEN <<>>
    ELSE [i \in 1..Len(Head(ls)) |-> Tok(Head(ls)[i], first)] \o TextOfLines(Tail(ls), first + 1)

\* Corefiles in other layouts than the one FromJSON writes: several keys
\* with and without commas, keys alone, a block without braces, a server
\* block left open behind a nested block, an argument behind a nested block
\* and such a line as FromJSON writes it, a closing brace too many, a block
\* without keys, and texts Parse refuses
OtherLayouts ==
    { << <<".:53", "example.org:53", "{">>, <<"errors">>, <<"}">> >>,
      << <<".:53,", "example.org:53", "{">>, <<"hosts", hostsPath>>, <<"}">> >>,
      << <<".:53">> >>,
      << <<".:53">>, <<"errors">>, <<"log">> >>,
      << <<".:53", "{">>, <<"hosts", "{">>, <<"fallthrough">>, <<"}">> >>,
      << <<".:53", "{">>, <<"hosts", hostsPath, "{">>, <<"fallthrough">>,
         <<"}", "example.org">>, <<"}">> >>,
      << <<".:53", "{">>, <<"hosts", hostsPath, "{">>, <<"fallthrough">>,
         <<"}example.org">>, <<"}">> >>,
      << <<".:53", "{">>, <<"hosts", hostsPath>>, <<"log", ".", "{">>, <<"class", "error">>,
         <<"}", "example.org">>, <<"}">> >>,
      << <<".:53", "{">>, <<"errors", "{">>, <<"x">>, <<"}", "y">>, <<"}">> >>,
      << <<".:53", "{">>, <<"hosts", otherPath, "{">>, <<"fallthrough">>,
         <<"}", hostsPath>>, <<"}">> >>,
      << <<".:53", "{">>, <<"errors">>, <<"}">>, <<"}">> >>,
      << <<"{">>, <<"errors">>, <<"}">> >>,
      << <<".:53", "{">>, <<"errors", "}">> >>,
      << <<".:53,">> >>,
      << <<".:53,", "{">>, <<"}">> >>,
      << <<".:53", "{">>, <<"log", "{">>, <<"class">> >>,
      << <<".:53", "{">>, <<"errors">> >> }

InputCorefiles(lines, blocks, spread) ==
    { FromJSON(d) : d \in InputDocuments(lines, blocks, spread) }
    \cup { TextOfLines(ls, 1) : ls \in OtherLayouts }

(***************************************************************************)
(* Part 2.  The objects of the API server and the bodies of the            *)
(* retry-on-conflict call sites.                                           *)
(***************************************************************************)
\* retry.DefaultRetry.Steps: the attempts of one RetryOnConflict call
maxAttempts == 5

\* --server-port of the installer
ServerPort == 9080

Threads == {"t1", "t2", "t3"}

\* t1 and t2 are request handlers of one server process, t3 of another
ProcOf(t) == IF t = "t3" THEN "pB" ELSE "pA"

Procs == {"pA", "pB"}

\* the objects: the record configmap, the cluster role, the deployment, the
\* service named --coredns-name, the service kube-dns, the Corefile configmap
Kinds == {"records", "role", "deploy", "svc", "kubedns", "corefile"}

RecordOps == {"SetData", "DeleteData"}

InstallerOps == {"ensureClusterrole", "ensureDeployment", "ensureService",
                 "ensureCoreDNSConfigmap"}

Target(op) ==
    CASE op \in RecordOps \cup {"GetData", "GetDatas", "initConfigmap"} -> "records"
      [] op = "ensureClusterrole" -> "role"
      [] op = "ensureDeployment" -> "deploy"
      [] op = "ensureService" -> "svc"
      [] op = "ensureCoreDNSConfigmap" -> "corefile"

Domains == {"a.com", "b.com"}

IPs == {"1.1.1.1", "2.2.2.2"}

\* cm.Data of the record configmap: a map from domains to addresses
RecordMaps == UNION { [D -> IPs] : D \in SUBSET Domains }

EmptyMap == [x \in {} |-> "0.0.0.0"]

MapPut(m, k, v) == [x \in DOMAIN m \cup {k} |-> IF x = k THEN v ELSE m[x]]

MapDelete(m, k) == [x \in DOMAIN m \ {k} |-> m[x]]

\* a closure that writes the one entry alone
SetDataBodyAlone(data, domain, ip) == [write |-> TRUE, data |-> MapPut(EmptyMap, domain, ip)]

\* a closure that writes whatever it fetched
SetDataBodyNoCheck(data, domain, ip) == [write |-> TRUE, data |-> MapPut(data, domain, ip)]

\* SetData's closure, lines 169-178: whether it writes, and what
SetDataBody(data, domain, ip) ==
    IF domain \in DOMAIN data /\ data[domain] = ip
    THEN [write |-> FALSE, data |-> data]
    ELSE [write |-> TRUE, data |-> MapPut(data, domain, ip)]

\* SetData's check of the object Update returned, lines 184-190
SetDataCheck(newData, domain, ip) ==
    IF DOMAIN newData = {} THEN "integrity"
    ELSE IF domain \notin DOMAIN newData \/ newData[domain] # ip THEN "integrity"
    ELSE "ok"

\* DeleteData's closure, lines 205-212
DeleteDataBody(data, domain) ==
    IF DOMAIN data = {} \/ domain \notin DOMAIN data
    THEN [write |-> FALSE, data |-> data]
    ELSE [write |-> TRUE, data |-> MapDelete(data, domain)]

\* DeleteData's check of the object Update returned, lines 218-224
DeleteDataCheck(newData, domain) ==
    IF DOMAIN newData = {} THEN "ok"
    ELSE IF domain \in DOMAIN newData THEN "integrity"
    ELSE "ok"

addRule == [APIGroups |-> <<"">>, Resources |-> <<"configmaps">>, Verbs |-> <<"*">>]

\* rules a cluster role may hold beside it
readRule == [APIGroups |-> <<"">>, Resources |-> <<"configmaps">>, Verbs |-> <<"get">>]

ExistPolicyRule(rule, rules) == \E i \in 1..Len(rules) : rules[i] = rule

\* ensureClusterrole's closure, lines 135-145
ClusterroleBody(rules) ==
    IF ~ExistPolicyRule(addRule, rules)
    THEN [write |-> TRUE, data |-> Append(rules, addRule)]
    ELSE [write |-> FALSE, data |-> rules]

volumeName == "shared-data"

volumeMountItem == [Name |-> volumeName, MountPath |-> "/etc/coredns-dir"]

coreDNSHostsServerName == "coredns-hosts-server"

\* a search that finds no container
ExistContainerByNameNever(name, containers) == FALSE

ExistContainerByName(name, containers) ==
    \E i \in 1..Len(containers) : containers[i].Name = name

ExistVolumeMountsByName(name, volumeMounts) ==
    \E i \in 1..Len(volumeMounts) : volumeMounts[i].Name = name

ExistVolumeMsByName(name, volumes) == \E i \in 1..Len(volumes) : volumes[i].Name = name

ExistPortsByPort(port, ports) == \E i \in 1..Len(ports) : ports[i].Port = port

\* lines 166-182: the sidecar container is appended when none has its name
WithContainer(containers) ==
    IF ~ExistContainerByName(coreDNSHostsServerName, containers)
    THEN Append(containers, [Name |-> coreDNSHostsServerName, VolumeMounts |-> <<>>])
    ELSE containers

\* lines 184-189: every container gets the mount it does not have by name
WithMounts(containers) ==
    [i \in 1..Len(containers) |->
        IF ~ExistVolumeMountsByName(volumeName, containers[i].VolumeMounts)
        THEN [containers[i] EXCEPT !.VolumeMounts = Append(@, volumeMountItem)]
        ELSE containers[i]]

\* lines 191-199
WithVolume(volumes) ==
    IF ~ExistVolumeMsByName(volumeName, volumes)
    THEN Append(volumes, [Name |-> volumeName, Source |-> "emptyDir"])
    ELSE volumes

\* ensureDeployment's closure, lines 163-204
DeploymentBody(d) ==
    LET new == [Containers |-> WithMounts(WithContainer(d.Containers)),
                Volumes |-> WithVolume(d.Volumes)]
        needUpdate ==
            \/ ~ExistContainerByName(coreDNSHostsServerName, d.Containers)
            \/ \E i \in 1..Len(WithContainer(d.Containers)) :
                   ~ExistVolumeMountsByName(volumeName,
                        WithContainer(d.Containers)[i].VolumeMounts)
            \/ ~ExistVolumeMsByName(volumeName, d.Volumes)
    IN [write |-> needUpdate, data |-> new]

\* ensureService's closure, lines 279-287
ServiceBody(ports) ==
    IF ~ExistPortsByPort(ServerPort, ports)
    THEN [write |-> TRUE, data |-> Append(ports, [Name |-> "apis", Port |-> ServerPort])]
    ELSE [write |-> FALSE, data |-> ports]

\* ensureCoreDNSConfigmap's closure, lines 308-315: it writes the text that was
\* built before the retry loop, whatever it has just fetched
CorefileBody(fetchedText, captured) == [write |-> TRUE, data |-> captured]

\* what the closure of a call site does with the data it fetched
Body(c, data, captured) ==
    CASE c.op = "SetData" -> SetDataBody(data, c.domain, c.ip)
      [] c.op = "DeleteData" -> DeleteDataBody(data, c.domain)
      [] c.op = "ensureClusterrole" -> ClusterroleBody(data)
      [] c.op = "ensureDeployment" -> DeploymentBody(data)
      [] c.op = "ensureService" -> ServiceBody(data)
      [] c.op = "ensureCoreDNSConfigmap" -> CorefileBody(data, captured)

\* a closure that takes what Update returned as it is
AfterUpdateUnchecked(c, newData) == "ok"

\* what the closure returns once Update has returned the stored object
AfterUpdate(c, newData) ==
    CASE c.op = "SetData" -> SetDataCheck(newData, c.domain, c.ip)
      [] c.op = "DeleteData" -> DeleteDataCheck(newData, c.domain)
      [] OTHER -> "ok"

\* a backoff that gives up one step early, and one that allows one step more
RetryExhaustedEarly(stepsLeft) == stepsLeft = 2

RetryExhaustedLate(stepsLeft) == stepsLeft = 0

\* wait.ExponentialBackoff under RetryOnConflict: a conflict on the last of
\* the steps ends the call with that conflict
RetryExhausted(stepsLeft) == stepsLeft = 1

\* a server that accepts every update
VersionMatchesAlways(stored, sent) == TRUE

\* the API server's check of an update: the resourceVersion sent must be the
\* stored one
VersionMatches(stored, sent) == stored.ver = sent.ver

(***************************************************************************)
(* The contents other writers give the objects.                            *)
(***************************************************************************)
plainContainer == [Name |-> "coredns", VolumeMounts |-> <<[Name |-> "config-volume", MountPath |-> "/etc/coredns"]>>]

sidecarContainer == [Name |-> coreDNSHostsServerName, VolumeMounts |-> <<>>]

plainDeployment ==
    [Containers |-> <<plainContainer>>, Volumes |-> <<[Name |-> "config-volume", Source |-> "configMap"]>>]

dnsPort == [Name |-> "dns", Port |-> 53]

CorefileOf(body) == FromJSON(<<[Keys |-> <<BlockKeys[1]>>, Body |-> body]>>)

plainCorefile == CorefileOf(<< <<Str("errors")>> >>)

logCorefile == CorefileOf(<< <<Str("log")>>, <<Str("errors")>> >>)

hostsCorefile == CorefileOf(<< <<Str("errors")>>, <<Str("hosts"), Str(hostsPath)>> >>)

\* a Corefile without a hosts line whose errors line has an argument behind
\* its nested block
trailingCorefile ==
    TextOfLines(<< <<".:53", "{">>, <<"errors", "{">>, <<"x">>, <<"}", "y">>, <<"}">> >>, 1)

InitialData(k) ==
    CASE k = "records" -> EmptyMap
      [] k = "role" -> <<readRule>>
      [] k = "deploy" -> plainDeployment
      [] k = "svc" -> <<dnsPort>>
      [] k = "kubedns" -> <<dnsPort>>
      [] k = "corefile" -> plainCorefile

ExternalData(k) ==
    CASE k = "records" -> RecordMaps
      [] k = "role" -> { <<>>, <<readRule>>, <<readRule, addRule>> }
      [] k = "deploy" ->
            { plainDeployment,
              [plainDeployment EXCEPT !.Containers = <<sidecarContainer, plainContainer>>],
              [plainDeployment EXCEPT !.Volumes = Append(@, [Name |-> volumeName, Source |-> "hostPath"])] }
      [] k = "svc" -> { <<dnsPort>>, <<dnsPort, [Name |-> "metrics", Port |-> 9153]>> }
      [] k = "kubedns" -> { <<dnsPort>>, <<dnsPort, [Name |-> "metrics", Port |-> 9153]>> }
      [] k = "corefile" -> { plainCorefile, logCorefile, hostsCorefile }

(***************************************************************************)
(* Part 3.  State.                                                         *)
(***************************************************************************)
VARIABLES
    \* the normalizer: the text it is given, and the results of applying
    \* BuildNewCoreFile once and once more to its own output
    corefile, built, rebuilt,
    \* the API server: per object whether it exists, its resourceVersion and
    \* its content; rev is the revision the last write got
    obj, rev,
    \* the callers of the retry-on-conflict call sites, per thread: where it
    \* is, the call it runs, the steps its backoff has left, the object its
    \* closure fetched, the content it is about to write, what the call
    \* returned, and the text ensureCoreDNSConfigmap built before its loop
    pc, call, steps, fetched, pending, ret, captured,
    \* recordController.lock of each server process: its holder or "free"
    lock,
    \* what a call has done so far: runs of its closure, conflicts met,
    \* versions fetched, updates accepted, other errors met, and for its last
    \* accepted update the content fetched in that attempt
    hist,
    \* the configmap controller: what the informer last showed its handlers,
    \* the workqueue, the worker's position in its loop, and the hosts file
    running, seen, wq, worker, sink,
    \* the record store's callers: what a read returned, the calls a thread
    \* has completed, and whether the API server runs an admission webhook
    \* that may change what an update stores
    result, trail, webhook,
    \* whether a thread may start its call, writes other writers may still make,
    \* errors the API server may still return
    mayCall, extLeft, errLeft

normVars == <<corefile, built, rebuilt>>
storeVars == <<obj, rev>>
threadVars == <<pc, call, steps, fetched, pending, ret, captured, lock, hist>>
syncVars == <<running, seen, wq, worker, sink>>
facadeVars == <<result, trail, webhook>>
budgetVars == <<mayCall, extLeft, errLeft>>
vars == <<normVars, storeVars, threadVars, syncVars, facadeVars, budgetVars>>

NotBuilt == [text |-> <<>>, needUpdate |-> FALSE, err |-> FALSE, done |-> FALSE]

Built(r) == [text |-> r.text, needUpdate |-> r.needUpdate, err |-> r.err, done |-> TRUE]

NoCall == [op |-> "none", domain |-> "", ip |-> "", chain |-> <<>>, top |-> "none"]

NoObject == [kind |-> "none", ver |-> 0, data |-> <<>>]

NewHist ==
    [runs |-> 0, conflicts |-> 0, vers |-> <<>>, writes |-> 0, faults |-> 0,
     base |-> <<>>, written |-> <<>>, stamp |-> 0]

\* what a read returns: the records, and the domain its error names
NoResult == [records |-> <<>>, errDomain |-> ""]

\* the state of the parts a specification leaves alone
NormIdle == corefile = <<>> /\ built = NotBuilt /\ rebuilt = NotBuilt

ThreadsIdle ==
    /\ pc = [t \in Threads |-> "idle"]
    /\ call = [t \in Threads |-> NoCall]
    /\ steps = [t \in Threads |-> 0]
    /\ fetched = [t \in Threads |-> NoObject]
    /\ pending = [t \in Threads |-> <<>>]
    /\ ret = [t \in Threads |-> "none"]
    /\ captured = [t \in Threads |-> <<>>]
    /\ lock = [p \in Procs |-> "free"]
    /\ hist = [t \in Threads |-> NewHist]
    /\ result = [t \in Threads |-> NoResult]
    /\ trail = [t \in Threads |-> <<>>]
    /\ webhook = FALSE

\* what the informer has shown its handlers: the watched configmap, and the
\* resourceVersion of another configmap (-1: not shown yet)
NothingSeen == [exists |-> FALSE, ver |-> 0, other |-> -1]

\* merged: an Add found the key dirty since the key was last handed out
EmptyQueue ==
    [queue |-> <<>>, dirty |-> FALSE, processing |-> FALSE, failures |-> 0, delayed |-> FALSE,
     merged |-> FALSE]

\* before: what the hosts file held when the sync in hand began
WorkerIdle ==
    [pc |-> "get", fetched |-> NoObject, res |-> "none", case |-> "none", before |-> <<>>]

SyncIdle ==
    /\ running = FALSE
    /\ seen = NothingSeen
    /\ wq = EmptyQueue
    /\ worker = WorkerIdle
    /\ sink = <<>>

StoreInitial ==
    /\ obj = [k \in Kinds |-> [exists |-> TRUE, ver |-> 0, data |-> InitialData(k)]]
    /\ rev = 0

(***************************************************************************)
(* The normalizer on its own.                                              *)
(***************************************************************************)
InitNorm ==
    /\ corefile \in InputCorefiles(MaxLines, MaxBlocks, MaxSpread)
    /\ built = NotBuilt
    /\ rebuilt = NotBuilt
    /\ StoreInitial /\ ThreadsIdle /\ SyncIdle
    /\ mayCall = [t \in Threads |-> FALSE] /\ extLeft = 0 /\ errLeft = 0

\* ensureCoreDNSConfigmap's call of BuildNewCoreFile on the fetched Corefile
Build ==
    /\ ~built.done
    /\ \E r \in BuildResults(corefile) : built' = Built(r)
    /\ UNCHANGED <<corefile, rebuilt, storeVars, threadVars, syncVars, facadeVars, budgetVars>>

\* ensureCoreDNSConfigmap, lines 302-316: the text that BuildNewCoreFile
\* returned is stored only when needUpdate is set; otherwise the configmap
\* keeps the Corefile it had
CorefileAfter(old, b) == IF b.needUpdate THEN b.text ELSE old

\* the next installer run's call, on the Corefile the first run left
Rebuild ==
    /\ built.done /\ ~built.err /\ ~rebuilt.done
    /\ \E r \in BuildResults(CorefileAfter(corefile, built)) : rebuilt' = Built(r)
    /\ UNCHANGED <<corefile, built, storeVars, threadVars, syncVars, facadeVars, budgetVars>>

NextNorm == Build \/ Rebuild

SpecNorm == InitNorm /\ [][NextNorm]_vars

(***************************************************************************)
(* Part 4.  The retry-on-conflict call sites.                              *)
(***************************************************************************)
\* bounds: writes of other writers, errors of the server
MaxExternalWrites == 5
MaxErrors == 1

RunOnceSteps == <<"ensureClusterrole", "ensureDeployment", "ensureService",
                  "ensureCoreDNSConfigmap">>

RecordCalls ==
    { [op |-> "SetData", domain |-> d, ip |-> i, chain |-> <<>>, top |-> "SetData"] :
          d \in Domains, i \in IPs }
    \cup { [op |-> "DeleteData", domain |-> d, ip |-> "", chain |-> <<>>, top |-> "DeleteData"] :
               d \in Domains }

InstallerCalls ==
    { [op |-> o, domain |-> "", ip |-> "", chain |-> <<>>, top |-> o] : o \in InstallerOps }
    \cup { [op |-> Head(RunOnceSteps), domain |-> "", ip |-> "",
            chain |-> Tail(RunOnceSteps), top |-> "RunOnce"] }

\* where a call site starts
FirstPc(op) ==
    CASE op \in RecordOps \cup {"GetData", "GetDatas"} -> "lock"
      [] op = "initConfigmap" -> "probe"
      [] op = "ensureClusterrole" -> "list"
      [] op = "ensureCoreDNSConfigmap" -> "outer"
      [] OTHER -> "get"

InFlight(t) == pc[t] \notin {"idle", "done"}

\* the objects a call reads or writes
Touches(c, k) == Target(c.op) = k \/ (c.op = "ensureService" /\ k = "kubedns")

\* somebody is working on object k or watching it
Concerned(k) ==
    \/ \E t \in Threads : InFlight(t) /\ Touches(call[t], k)
    \/ running /\ k = "records"

\* a call site returns r: deferred Unlock included
Return(t, r) ==
    /\ pc' = [pc EXCEPT ![t] = "done"]
    /\ ret' = [ret EXCEPT ![t] = r]
    /\ lock' = [p \in Procs |-> IF lock[p] = t THEN "free" ELSE lock[p]]

Start(t, c) ==
    /\ pc[t] = "idle"
    /\ mayCall[t]
    /\ mayCall' = [mayCall EXCEPT ![t] = FALSE]
    /\ call' = [call EXCEPT ![t] = c]
    /\ pc' = [pc EXCEPT ![t] = FirstPc(c.op)]
    /\ steps' = [steps EXCEPT ![t] = maxAttempts]
    /\ ret' = [ret EXCEPT ![t] = "none"]
    /\ hist' = [hist EXCEPT ![t] = NewHist]
    /\ fetched' = [fetched EXCEPT ![t] = NoObject]
    /\ pending' = [pending EXCEPT ![t] = <<>>]
    /\ captured' = [captured EXCEPT ![t] = <<>>]
    /\ UNCHANGED <<normVars, syncVars, facadeVars, storeVars, lock, extLeft, errLeft>>

\* a RunOnce that goes on whatever the step returned
ProceedsAlways(r) == TRUE

\* if err := s.ensureX(); err != nil { return ... }
Proceeds(r) == r = "ok"

\* RunOnce goes on to its next step when the one before returned nil
Advance(t) ==
    /\ pc[t] = "done" /\ Proceeds(ret[t]) /\ call[t].chain # <<>>
    /\ call' = [call EXCEPT ![t] = [@ EXCEPT !.op = Head(call[t].chain),
                                              !.chain = Tail(call[t].chain)]]
    /\ pc' = [pc EXCEPT ![t] = FirstPc(Head(call[t].chain))]
    /\ steps' = [steps EXCEPT ![t] = maxAttempts]
    /\ ret' = [ret EXCEPT ![t] = "none"]
    /\ hist' = [hist EXCEPT ![t] = NewHist]
    /\ fetched' = [fetched EXCEPT ![t] = NoObject]
    /\ pending' = [pending EXCEPT ![t] = <<>>]
    /\ captured' = [captured EXCEPT ![t] = <<>>]
    /\ UNCHANGED <<normVars, syncVars, facadeVars, storeVars, lock, budgetVars>>

\* a lock that lets every caller in
CanLockAlways(holder) == TRUE

\* sync.RWMutex.Lock returns when nobody holds the lock
CanLock(holder) == holder = "free"

\* r.lock.Lock()
Acquire(t) ==
    /\ pc[t] = "lock"
    /\ CanLock(lock[ProcOf(t)])
    /\ lock' = [lock EXCEPT ![ProcOf(t)] = t]
    /\ pc' = [pc EXCEPT ![t] = IF call[t].op \in RecordOps THEN "get" ELSE "read"]
    /\ UNCHANGED <<normVars, syncVars, facadeVars, storeVars, call, steps, fetched, pending, ret, captured,
                   hist, budgetVars>>

\* ensureClusterrole up to its retry loop: the role bound to the service account
List(t) ==
    /\ pc[t] = "list"
    /\ pc' = [pc EXCEPT ![t] = "get"]
    /\ UNCHANGED <<normVars, syncVars, facadeVars, storeVars, call, steps, fetched, pending, ret, captured,
                   lock, hist, budgetVars>>

\* ensureCoreDNSConfigmap up to its retry loop, lines 293-302
OuterGet(t) ==
    /\ pc[t] = "outer"
    /\ IF ~obj["corefile"].exists
       THEN /\ Return(t, "error")
            /\ hist' = [hist EXCEPT ![t].faults = @ + 1]
            /\ UNCHANGED captured
       ELSE \E r \in BuildResults(obj["corefile"].data) :
            /\ hist' = hist
            /\ captured' = [captured EXCEPT ![t] = r.text]
            /\ IF r.err THEN Return(t, "error")
               ELSE IF r.needUpdate
                    THEN pc' = [pc EXCEPT ![t] = "get"] /\ UNCHANGED <<ret, lock>>
                    ELSE Return(t, "ok")
    /\ UNCHANGED <<normVars, syncVars, facadeVars, storeVars, call, steps, fetched, pending, budgetVars>>

\* the closure of a call site from its Get to the point where it returns or
\* is about to call Update, on object k
FetchAndMutate(t, k) ==
    LET b == Body(call[t], obj[k].data, captured[t]) IN
    /\ fetched' = [fetched EXCEPT ![t] = [kind |-> k, ver |-> obj[k].ver, data |-> obj[k].data]]
    /\ IF b.write
       THEN /\ pending' = [pending EXCEPT ![t] = b.data]
            /\ pc' = [pc EXCEPT ![t] = "update"]
            /\ UNCHANGED <<ret, lock>>
       ELSE /\ Return(t, "ok")
            /\ UNCHANGED pending

\* one run of the closure: its Get and what it does with the object
Get(t) ==
    /\ pc[t] = "get"
    /\ LET k == Target(call[t].op) IN
       IF obj[k].exists
       THEN /\ FetchAndMutate(t, k)
            /\ hist' = [hist EXCEPT ![t].runs = @ + 1, ![t].vers = Append(@, obj[k].ver)]
       ELSE IF call[t].op = "ensureService"
       THEN /\ pc' = [pc EXCEPT ![t] = "get2"]
            /\ hist' = [hist EXCEPT ![t].runs = @ + 1]
            /\ UNCHANGED <<fetched, pending, ret, lock>>
       ELSE /\ Return(t, "error")
            /\ hist' = [hist EXCEPT ![t].runs = @ + 1, ![t].faults = @ + 1]
            /\ UNCHANGED <<fetched, pending>>
    /\ UNCHANGED <<normVars, syncVars, facadeVars, storeVars, call, steps, captured, budgetVars>>

\* ensureService's second Get, of kube-dns, lines 274-277
GetFallback(t) ==
    /\ pc[t] = "get2"
    /\ IF obj["kubedns"].exists
       THEN /\ FetchAndMutate(t, "kubedns")
            /\ hist' = [hist EXCEPT ![t].vers = Append(@, obj["kubedns"].ver)]
       ELSE /\ Return(t, "error")
            /\ hist' = [hist EXCEPT ![t].faults = @ + 1]
            /\ UNCHANGED <<fetched, pending>>
    /\ UNCHANGED <<normVars, syncVars, facadeVars, storeVars, call, steps, captured, budgetVars>>

\* what the API server stores and returns for an accepted update: the
\* content sent, or with an admission webhook in the way the content it had
Stored(c, old, sent) ==
    IF webhook /\ c.op \in RecordOps THEN {sent, old} ELSE {sent}

\* the closure's Update and what RetryOnConflict does with its result
Update(t) ==
    /\ pc[t] = "update"
    /\ LET k == fetched[t].kind IN
       IF ~obj[k].exists
       THEN /\ Return(t, "error")
            /\ hist' = [hist EXCEPT ![t].faults = @ + 1]
            /\ UNCHANGED <<storeVars, steps>>
       ELSE IF ~VersionMatches(obj[k], fetched[t])
       THEN /\ hist' = [hist EXCEPT ![t].conflicts = @ + 1]
            /\ IF RetryExhausted(steps[t])
               THEN Return(t, "conflict") /\ UNCHANGED steps
               ELSE /\ steps' = [steps EXCEPT ![t] = @ - 1]
                    /\ pc' = [pc EXCEPT ![t] = "get"]
                    /\ UNCHANGED <<ret, lock>>
            /\ UNCHANGED storeVars
       ELSE \E stored \in Stored(call[t], obj[k].data, pending[t]) :
            /\ IF stored = obj[k].data
               THEN UNCHANGED storeVars
               ELSE /\ obj' = [obj EXCEPT ![k].ver = rev + 1, ![k].data = stored]
                    /\ rev' = rev + 1
            /\ hist' = [hist EXCEPT ![t].writes = @ + 1, ![t].base = fetched[t].data,
                                     ![t].written = pending[t],
                                     ![t].stamp = IF stored = obj[k].data
                                                  THEN obj[k].ver ELSE rev + 1]
            /\ Return(t, AfterUpdate(call[t], stored))
            /\ UNCHANGED steps
    /\ UNCHANGED <<normVars, syncVars, facadeVars, call, fetched, pending, captured, budgetVars>>

\* the API server answers a request of the call with an error that is no
\* conflict and no not-found
Fault(t) ==
    /\ errLeft > 0
    /\ pc[t] \in {"list", "outer", "get", "get2", "update"}
    /\ errLeft' = errLeft - 1
    /\ hist' = [hist EXCEPT ![t].faults = @ + 1,
                            ![t].runs = IF pc[t] = "get" THEN @ + 1 ELSE @]
    /\ IF pc[t] = "get" /\ call[t].op = "ensureService"
       THEN pc' = [pc EXCEPT ![t] = "get2"] /\ UNCHANGED <<ret, lock>>
       ELSE Return(t, "error")
    /\ UNCHANGED <<normVars, syncVars, facadeVars, storeVars, call, steps, fetched, pending, captured,
                   mayCall, extLeft>>

\* another writer updates an object a call is working on
ExternalWrite(k, d) ==
    /\ extLeft > 0
    /\ obj[k].exists
    /\ Concerned(k)
    /\ extLeft' = extLeft - 1
    /\ obj' = [obj EXCEPT ![k].ver = rev + 1, ![k].data = d]
    /\ rev' = rev + 1
    /\ UNCHANGED <<normVars, syncVars, facadeVars, threadVars, mayCall, errLeft>>

\* another writer deletes the record configmap, or creates it again
ExternalDelete(k) ==
    /\ extLeft > 0
    /\ obj[k].exists
    /\ Concerned(k)
    /\ extLeft' = extLeft - 1
    /\ obj' = [obj EXCEPT ![k].exists = FALSE]
    /\ rev' = rev + 1
    /\ UNCHANGED <<normVars, syncVars, facadeVars, threadVars, mayCall, errLeft>>

ExternalCreate(k) ==
    /\ extLeft > 0
    /\ ~obj[k].exists
    /\ Concerned(k)
    /\ extLeft' = extLeft - 1
    /\ obj' = [obj EXCEPT ![k] = [exists |-> TRUE, ver |-> rev + 1, data |-> InitialData(k)]]
    /\ rev' = rev + 1
    /\ UNCHANGED <<normVars, syncVars, facadeVars, threadVars, mayCall, errLeft>>

InitReconcile ==
    /\ NormIdle /\ ThreadsIdle /\ SyncIdle
    /\ obj \in { [k \in Kinds |-> [exists |-> (k # "svc" \/ e), ver |-> 0, data |-> InitialData(k)]] :
                    e \in BOOLEAN }
    /\ rev = 0
    /\ mayCall = [t \in Threads |-> t = "t1"]
    /\ extLeft = MaxExternalWrites
    /\ errLeft = MaxErrors

NextReconcile ==
    \/ \E c \in RecordCalls \cup InstallerCalls : Start("t1", c)
    \/ Advance("t1")
    \/ Acquire("t1")
    \/ List("t1")
    \/ OuterGet("t1")
    \/ Get("t1")
    \/ GetFallback("t1")
    \/ Update("t1")
    \/ Fault("t1")
    \/ \E k \in Kinds : \E d \in ExternalData(k) : ExternalWrite(k, d)
    \/ ExternalDelete("records")
    \/ ExternalCreate("records")

SpecReconcile == InitReconcile /\ [][NextReconcile]_vars

(***************************************************************************)
(* Two server processes working on the record configmap, one call each.    *)
(***************************************************************************)
RaceThreads == {"t1", "t3"}

InitRace ==
    /\ NormIdle /\ ThreadsIdle /\ SyncIdle
    /\ obj \in { [k \in Kinds |-> [exists |-> TRUE, ver |-> 0,
                                    data |-> IF k = "records" THEN m ELSE InitialData(k)]] :
                    m \in RecordMaps }
    /\ rev = 0
    /\ mayCall = [t \in Threads |-> t \in RaceThreads]
    /\ extLeft = 0
    /\ errLeft = 0

NextRace ==
    \/ \E t \in RaceThreads : \E c \in RecordCalls : Start(t, c)
    \/ \E t \in RaceThreads : Acquire(t)
    \/ \E t \in RaceThreads : Get(t)
    \/ \E t \in RaceThreads : Update(t)

SpecRace == InitRace /\ [][NextRace]_vars

(***************************************************************************)
(* Part 5.  The configmap controller: informer handlers, workqueue, worker *)
(* and syncConfigmap.                                                      *)
(***************************************************************************)
\* bounds: writes of other writers and errors while the controller runs
MaxRemoteWrites == 2
MaxSyncErrors == 1

ConfigmapName == "coredns-hosts-api"
ConfigmapNamespace == "kube-system"

\* another configmap the informer lists and watches: CoreDNS's own
OtherName == "coredns"

\* cache.DeletionHandlingMetaNamespaceKeyFunc of the watched configmap
QueueKey == "kube-system/coredns-hosts-api"

\* a filter that lets every configmap through
FilterConfigmapAll(name, namespace) == TRUE

\* FilterConfigmap, lines 560-565
FilterConfigmap(name, namespace) == name = ConfigmapName /\ namespace = ConfigmapNamespace

\* an UpdateFunc that enqueues nothing
UpdateEnqueuesNever(old, new) == FALSE

\* UpdateFunc, lines 509-517: a changed resourceVersion enqueues the key
UpdateEnqueues(old, new) == new.ver # old.ver

\* an Add that queues the key although it is dirty
QAddNoDedup(q) ==
    IF q.processing THEN [q EXCEPT !.dirty = TRUE]
    ELSE [q EXCEPT !.merged = q.dirty, !.dirty = TRUE, !.queue = Append(@, QueueKey)]

\* an Add that queues the key although it is in processing
QAddWhileProcessing(q) ==
    IF q.dirty THEN [q EXCEPT !.merged = TRUE]
    ELSE [q EXCEPT !.dirty = TRUE, !.queue = Append(@, QueueKey)]

\* workqueue.Add: a key that is dirty is dropped, a key in processing is
\* marked dirty only
QAdd(q) ==
    IF q.dirty THEN [q EXCEPT !.merged = TRUE]
    ELSE IF q.processing THEN [q EXCEPT !.dirty = TRUE]
    ELSE [q EXCEPT !.dirty = TRUE, !.queue = Append(@, QueueKey)]

\* workqueue.Get on a queue that has an item
QGet(q) ==
    [q EXCEPT !.queue = Tail(@), !.processing = TRUE, !.dirty = FALSE, !.merged = FALSE]

\* workqueue.Done: a key marked dirty while in processing is queued again
QDone(q) ==
    [q EXCEPT !.processing = FALSE,
              !.queue = IF q.dirty THEN Append(@, QueueKey) ELSE @]

\* workqueue.AddRateLimited: the key is added after the limiter's delay
QAddRateLimited(q) == [q EXCEPT !.failures = @ + 1, !.delayed = TRUE]

\* a Forget that leaves the failure count
QForgetKeeps(q) == q

\* workqueue.Forget
QForget(q) == [q EXCEPT !.failures = 0]

\* a syncConfigmap that reports a missing configmap as an error
SyncResultOnNotFoundErr == "err"

\* syncConfigmap, lines 604-605: a missing configmap is no error
SyncResultOnNotFound == "ok"

\* fmt.Sprintf("%s %s\n", val, key)
Item(key, val) == val \o " " \o key \o "\n"

\* the orders in which range may go through the keys of a map
RECURSIVE OrdersOf(_)
OrdersOf(S) ==
    IF S = {} THEN {<<>>}
    ELSE UNION { { <<x>> \o r : r \in OrdersOf(S \ {x}) } : x \in S }

\* the content built by lines 609-613 when range yields the keys in order
Content(data, order) == [i \in 1..Len(order) |-> Item(order[i], data[order[i]])]

\* a write that adds to what the file holds
WriteFileAppend(old, content) == old \o content

\* os.WriteFile: the file is truncated and holds the content alone
WriteFile(old, content) == content

\* the informer shows its handlers the state of the configmap: AddFunc,
\* UpdateFunc or DeleteFunc, lines 503-521
InformerObserve ==
    /\ running
    /\ LET now == [seen EXCEPT !.exists = obj["records"].exists, !.ver = obj["records"].ver]
           pass == FilterConfigmap(ConfigmapName, ConfigmapNamespace)
       IN
       /\ seen # now
       /\ seen' = now
       /\ wq' = IF now.exists /\ ~seen.exists /\ pass THEN QAdd(wq)
                ELSE IF now.exists /\ seen.exists /\ UpdateEnqueues(seen, now) /\ pass
                THEN QAdd(wq)
                ELSE wq
    /\ UNCHANGED <<normVars, facadeVars, storeVars, threadVars, running, worker, sink, budgetVars>>

\* the delay of AddRateLimited is over
TimerFire ==
    /\ wq.delayed
    /\ wq' = QAdd([wq EXCEPT !.delayed = FALSE])
    /\ UNCHANGED <<normVars, facadeVars, storeVars, threadVars, running, seen, worker, sink, budgetVars>>

\* worker, line 580: workqueue.Get returns the key; it waits for a key or
\* for the queue's ShutDown, which nobody calls, not for stopCh
WorkerGet ==
    /\ worker.pc = "get"
    /\ wq.queue # <<>>
    /\ wq' = QGet(wq)
    /\ worker' = [pc |-> "fetch", fetched |-> NoObject, res |-> "none", case |-> "none",
                  before |-> sink]
    /\ UNCHANGED <<normVars, facadeVars, storeVars, threadVars, running, seen, sink, budgetVars>>

\* syncConfigmap, lines 599-606: the Get of the configmap
SyncFetch ==
    /\ worker.pc = "fetch"
    /\ worker' =
          IF obj["records"].exists
          THEN [worker EXCEPT !.pc = "write",
                              !.fetched = [kind |-> "records", ver |-> obj["records"].ver,
                                           data |-> obj["records"].data]]
          ELSE [worker EXCEPT !.pc = "finish", !.res = SyncResultOnNotFound,
                              !.case = "notfound"]
    /\ UNCHANGED <<normVars, facadeVars, storeVars, threadVars, running, seen, wq, sink, budgetVars>>

\* the Get fails with another error, line 606
SyncFetchError ==
    /\ worker.pc = "fetch"
    /\ errLeft > 0
    /\ errLeft' = errLeft - 1
    /\ worker' = [worker EXCEPT !.pc = "finish", !.res = "err", !.case = "fetcherr"]
    /\ UNCHANGED <<normVars, facadeVars, storeVars, threadVars, running, seen, wq, sink, mayCall, extLeft>>

\* syncConfigmap, lines 608-614: the content is built and written
SyncWrite ==
    /\ worker.pc = "write"
    /\ \E order \in OrdersOf(DOMAIN worker.fetched.data) :
          sink' = WriteFile(sink, Content(worker.fetched.data, order))
    /\ worker' = [worker EXCEPT !.pc = "finish", !.res = "ok", !.case = "written"]
    /\ UNCHANGED <<normVars, facadeVars, storeVars, threadVars, running, seen, wq, budgetVars>>

\* what is left of a line that was written in part
Cut(item) == "cut:" \o item

\* what the file can hold when os.WriteFile returned an error: what it held
\* (the open failed), or a part of the content, from nothing to all of it
\* (a Write or the Close failed); the part can end within a line
AfterFailedWrite(old, content) ==
    {old}
    \cup { SubSeq(content, 1, k) : k \in 0..Len(content) }
    \cup { Append(SubSeq(content, 1, k), Cut(content[k + 1])) : k \in 0..(Len(content) - 1) }

\* os.WriteFile fails, line 614
SyncWriteError ==
    /\ worker.pc = "write"
    /\ errLeft > 0
    /\ errLeft' = errLeft - 1
    /\ \E order \in OrdersOf(DOMAIN worker.fetched.data) :
          sink' \in AfterFailedWrite(sink, Content(worker.fetched.data, order))
    /\ worker' = [worker EXCEPT !.pc = "finish", !.res = "err", !.case = "writeerr"]
    /\ UNCHANGED <<normVars, facadeVars, storeVars, threadVars, running, seen, wq, mayCall, extLeft>>

\* worker, lines 585-592: AddRateLimited after an error, Forget after nil
WorkerFinish ==
    /\ worker.pc = "finish"
    /\ wq' = IF worker.res = "err" THEN QAddRateLimited(wq) ELSE QForget(wq)
    /\ worker' = [worker EXCEPT !.pc = "done"]
    /\ UNCHANGED <<normVars, facadeVars, storeVars, threadVars, running, seen, sink, budgetVars>>

\* worker, line 583: the deferred Done, a call of its own on the queue; the
\* handlers and the timer can add the key between the two
WorkerDone ==
    /\ worker.pc = "done"
    /\ wq' = QDone(wq)
    /\ worker' = [worker EXCEPT !.pc = "get"]
    /\ UNCHANGED <<normVars, facadeVars, storeVars, threadVars, running, seen, sink, budgetVars>>

\* what the other writers give the record configmap while the controller
\* runs: no entry, one, another one, two
SyncMaps ==
    { EmptyMap, MapPut(EmptyMap, "a.com", "1.1.1.1"), MapPut(EmptyMap, "b.com", "2.2.2.2"),
      MapPut(MapPut(EmptyMap, "a.com", "1.1.1.1"), "b.com", "2.2.2.2") }

InitSync ==
    /\ NormIdle /\ ThreadsIdle
    /\ running = TRUE
    /\ seen = NothingSeen
    /\ wq = EmptyQueue
    /\ worker = WorkerIdle
    /\ sink = <<>>
    /\ obj \in { [k \in Kinds |-> [exists |-> (k # "records" \/ e), ver |-> 0,
                                    data |-> InitialData(k)]] : e \in BOOLEAN }
    /\ rev = 0
    /\ mayCall = [t \in Threads |-> FALSE]
    /\ extLeft = MaxRemoteWrites
    /\ errLeft = MaxSyncErrors

NextSync ==
    \/ \E d \in SyncMaps : ExternalWrite("records", d)
    \/ ExternalDelete("records")
    \/ ExternalCreate("records")
    \/ InformerObserve
    \/ TimerFire
    \/ WorkerGet
    \/ SyncFetch
    \/ SyncFetchError
    \/ SyncWrite
    \/ SyncWriteError
    \/ WorkerFinish
    \/ WorkerDone

SpecSync == InitSync /\ [][NextSync]_vars

\* the informer's goroutines, the delaying queue's timer and the worker keep
\* running; requests that can succeed do
SpecSyncFair ==
    /\ InitSync /\ [][NextSync]_vars
    /\ WF_vars(InformerObserve)
    /\ WF_vars(TimerFire)
    /\ WF_vars(WorkerGet)
    /\ WF_vars(SyncFetch)
    /\ WF_vars(SyncWrite)
    /\ WF_vars(WorkerFinish)
    /\ WF_vars(WorkerDone)

(***************************************************************************)
(* Part 5b.  The record store as its callers see it: SetData, DeleteData,  *)
(* GetData and GetDatas of one server process, one after another.          *)
(***************************************************************************)
\* bounds: completed calls a thread goes on from, writes of other writers
MaxTrail == 1
MaxStoreWrites == 1

StoreThreads == {"t1", "t2"}

\* what another writer leaves in the record configmap
OtherWrites == {EmptyMap, MapPut(EmptyMap, "b.com", "2.2.2.2")}

ReadCalls ==
    { [op |-> "GetData", domain |-> d, ip |-> "", chain |-> <<>>, top |-> "GetData"] :
          d \in Domains }
    \cup { [op |-> "GetDatas", domain |-> "", ip |-> "", chain |-> <<>>, top |-> "GetDatas"] }

\* the calls of the two request handlers: t1 works on one domain, t2 gets in
\* its way with one call
CallsOf(t) ==
    IF t = "t1"
    THEN { c \in RecordCalls \cup ReadCalls : c.domain \in {"a.com", ""} }
    ELSE { c \in RecordCalls \cup ReadCalls :
               \/ c.op = "SetData" /\ c.domain = "b.com" /\ c.ip = "2.2.2.2"
               \/ c.op = "DeleteData" /\ c.domain = "a.com"
               \/ c.op = "GetDatas" }

\* the resourceVersion of the configmap as a call left it or last saw it
EndVersion(h) ==
    IF h.writes > 0 THEN h.stamp
    ELSE IF h.vers = <<>> THEN -1 ELSE h.vers[Len(h.vers)]

\* what is kept of a completed call
Completed(t) ==
    [call |-> call[t], ret |-> ret[t], writes |-> hist[t].writes,
     first |-> IF hist[t].vers = <<>> THEN -1 ELSE hist[t].vers[1],
     end |-> EndVersion(hist[t]), result |-> result[t]]

\* a GetData that finds nothing
GetDataResultNone(data, domain) ==
    [ret |-> "nodomain",
     result |-> [records |-> <<[Domain |-> "", IP |-> ""]>>, errDomain |-> domain]]

\* GetData, lines 257-263: the record of the domain, or an empty record and
\* an error that names the domain
GetDataResult(data, domain) ==
    IF domain \in DOMAIN data
    THEN [ret |-> "ok",
          result |-> [records |-> <<[Domain |-> domain, IP |-> data[domain]]>>,
                      errDomain |-> ""]]
    ELSE [ret |-> "nodomain",
          result |-> [records |-> <<[Domain |-> "", IP |-> ""]>>, errDomain |-> domain]]

\* GetDatas, lines 238-245, when range yields the keys in order
GetDatasResult(data, order) ==
    [ret |-> "ok",
     result |-> [records |-> [i \in 1..Len(order) |->
                                  [Domain |-> order[i], IP |-> data[order[i]]]],
                 errDomain |-> ""]]

\* what GetData and GetDatas return beside the error when their Get failed,
\* lines 252-256 and 233-237: the empty record, the empty list
ReadFailed(op) ==
    [records |-> IF op = "GetData" THEN <<[Domain |-> "", IP |-> ""]>> ELSE <<>>,
     errDomain |-> ""]

\* the Get of GetData and GetDatas and what they make of it
Read(t) ==
    /\ pc[t] = "read"
    /\ IF ~obj["records"].exists
       THEN /\ Return(t, "error")
            /\ hist' = [hist EXCEPT ![t].faults = @ + 1]
            /\ result' = [result EXCEPT ![t] = ReadFailed(call[t].op)]
            /\ UNCHANGED fetched
       ELSE /\ fetched' = [fetched EXCEPT ![t] = [kind |-> "records",
                                                  ver |-> obj["records"].ver,
                                                  data |-> obj["records"].data]]
            /\ hist' = [hist EXCEPT ![t].runs = @ + 1,
                                     ![t].vers = Append(@, obj["records"].ver)]
            /\ \E order \in OrdersOf(DOMAIN obj["records"].data) :
                  LET r == IF call[t].op = "GetData"
                           THEN GetDataResult(obj["records"].data, call[t].domain)
                           ELSE GetDatasResult(obj["records"].data, order)
                  IN /\ result' = [result EXCEPT ![t] = r.result]
                     /\ Return(t, r.ret)
    /\ UNCHANGED <<normVars, syncVars, storeVars, call, steps, pending, captured,
                   trail, webhook, budgetVars>>

\* the caller goes on to its next call
Again(t) ==
    /\ pc[t] = "done"
    /\ Len(trail[t]) < MaxTrail
    /\ trail' = [trail EXCEPT ![t] = Append(@, Completed(t))]
    /\ result' = [result EXCEPT ![t] = NoResult]
    /\ pc' = [pc EXCEPT ![t] = "idle"]
    /\ mayCall' = [mayCall EXCEPT ![t] = TRUE]
    /\ UNCHANGED <<normVars, syncVars, storeVars, call, steps, fetched, pending, ret,
                   captured, lock, hist, webhook, extLeft, errLeft>>

InitStore ==
    /\ NormIdle /\ SyncIdle
    /\ pc = [t \in Threads |-> "idle"]
    /\ call = [t \in Threads |-> NoCall]
    /\ steps = [t \in Threads |-> 0]
    /\ fetched = [t \in Threads |-> NoObject]
    /\ pending = [t \in Threads |-> <<>>]
    /\ ret = [t \in Threads |-> "none"]
    /\ captured = [t \in Threads |-> <<>>]
    /\ lock = [p \in Procs |-> "free"]
    /\ hist = [t \in Threads |-> NewHist]
    /\ result = [t \in Threads |-> NoResult]
    /\ trail = [t \in Threads |-> <<>>]
    /\ webhook \in BOOLEAN
    /\ obj \in { [k \in Kinds |-> [exists |-> TRUE, ver |-> 0,
                                    data |-> IF k = "records" THEN m ELSE InitialData(k)]] :
                    m \in {EmptyMap, MapPut(EmptyMap, "a.com", "1.1.1.1")} }
    /\ rev = 0
    /\ mayCall = [t \in Threads |-> t \in StoreThreads]
    /\ extLeft = MaxStoreWrites
    /\ errLeft = 0

NextStore ==
    \/ \E t \in StoreThreads : \E c \in CallsOf(t) : Start(t, c)
    \/ \E t \in StoreThreads : Acquire(t)
    \/ \E t \in StoreThreads : Get(t)
    \/ \E t \in StoreThreads : Update(t)
    \/ \E t \in StoreThreads : Read(t)
    \/ Again("t1")
    \/ \E d \in OtherWrites : ExternalWrite("records", d)

SpecStore == InitStore /\ [][NextStore]_vars

(***************************************************************************)
(* Part 7b.  The server process: newRecordController's initConfigmap, then *)
(* the HTTP handlers on top of the record store.                           *)
(***************************************************************************)
\* bounds: deletes, creates and updates of the record configmap by others,
\* errors of the API server while the process starts
MaxServerWrites == 2
MaxServerErrors == 1

InitCall ==
    [op |-> "initConfigmap", domain |-> "", ip |-> "", chain |-> <<>>, top |-> "initConfigmap"]

\* an initConfigmap that takes every answer for found
InitNeedsCreateNever(exists) == FALSE

\* initConfigmap, lines 142-143: errors.IsNotFound(err)
InitNeedsCreate(exists) == ~exists

\* initConfigmap, lines 141-156: the Get
InitProbe(t) ==
    /\ pc[t] = "probe"
    /\ hist' = [hist EXCEPT ![t].runs = @ + 1,
                            ![t].vers = IF obj["records"].exists
                                        THEN Append(@, obj["records"].ver) ELSE @]
    /\ IF InitNeedsCreate(obj["records"].exists)
       THEN pc' = [pc EXCEPT ![t] = "create"] /\ UNCHANGED <<ret, lock>>
       ELSE Return(t, "ok")
    /\ UNCHANGED <<normVars, syncVars, facadeVars, storeVars, call, steps, fetched, pending,
                   captured, budgetVars>>

\* an initConfigmap that takes a refused Create for done
InitCreateReturnsNil(refused) == "ok"

\* initConfigmap, lines 150-151: _, err := ...Create(...); return err
InitCreateReturns(refused) == IF refused THEN "error" ELSE "ok"

\* initConfigmap, lines 144-152: the Create of the empty configmap; the
\* server refuses it when the configmap is there by now
InitCreate(t) ==
    /\ pc[t] = "create"
    /\ IF obj["records"].exists
       THEN /\ hist' = [hist EXCEPT ![t].faults = @ + 1]
            /\ Return(t, InitCreateReturns(TRUE))
            /\ UNCHANGED storeVars
       ELSE /\ obj' = [obj EXCEPT !["records"] =
                           [exists |-> TRUE, ver |-> rev + 1, data |-> EmptyMap]]
            /\ rev' = rev + 1
            /\ hist' = [hist EXCEPT ![t].writes = @ + 1, ![t].stamp = rev + 1]
            /\ Return(t, InitCreateReturns(FALSE))
    /\ UNCHANGED <<normVars, syncVars, facadeVars, call, steps, fetched, pending, captured,
                   budgetVars>>

\* initConfigmap, line 154 and line 151: the Get fails with an error that is
\* not not-found, or the Create with one that is not already-exists; the
\* error is returned and nothing is created
InitFault(t) ==
    /\ pc[t] \in {"probe", "create"}
    /\ errLeft > 0
    /\ errLeft' = errLeft - 1
    /\ hist' = [hist EXCEPT ![t].faults = @ + 1,
                            ![t].runs = IF pc[t] = "probe" THEN @ + 1 ELSE @]
    /\ Return(t, "error")
    /\ UNCHANGED <<normVars, syncVars, facadeVars, storeVars, call, steps, fetched, pending,
                   captured, mayCall, extLeft>>

\* PostRecords and DeleteRecords, lines 279-283 and 295-299: ShouldBindJSON
\* fails and the handler answers without calling the store
Reject(t, c) ==
    /\ pc[t] = "idle"
    /\ mayCall[t]
    /\ mayCall' = [mayCall EXCEPT ![t] = FALSE]
    /\ call' = [call EXCEPT ![t] = c]
    /\ pc' = [pc EXCEPT ![t] = "done"]
    /\ ret' = [ret EXCEPT ![t] = "badrequest"]
    /\ hist' = [hist EXCEPT ![t] = NewHist]
    /\ fetched' = [fetched EXCEPT ![t] = NoObject]
    /\ UNCHANGED <<normVars, syncVars, facadeVars, storeVars, steps, pending, captured, lock,
                   extLeft, errLeft>>

\* c.JSON(status, SuccessResponse(...)) or c.JSON(status, ErrorResponse(err)):
\* the status and the body's code for what the handler got
Response(r) ==
    CASE r = "ok" -> [status |-> 200, code |-> 0]
      [] r = "badrequest" -> [status |-> 400, code |-> 1]
      [] OTHER -> [status |-> 500, code |-> 1]

\* the process has been through newRecordController
Booted(t) == trail[t] # <<>> /\ trail[t][1].call.op = "initConfigmap" /\ trail[t][1].ret = "ok"

InitServer ==
    /\ NormIdle /\ ThreadsIdle /\ SyncIdle
    /\ obj \in { [k \in Kinds |-> [exists |-> (k # "records" \/ e), ver |-> 0,
                                    data |-> IF k = "records" THEN m ELSE InitialData(k)]] :
                    e \in BOOLEAN, m \in {EmptyMap, MapPut(EmptyMap, "a.com", "1.1.1.1")} }
    /\ rev = 0
    /\ mayCall = [t \in Threads |-> t = "t1"]
    /\ extLeft = MaxServerWrites
    /\ errLeft = MaxServerErrors

NextServer ==
    \/ trail["t1"] = <<>> /\ Start("t1", InitCall)
    \/ InitProbe("t1")
    \/ InitCreate("t1")
    \/ InitFault("t1")
    \/ Again("t1")
    \/ Booted("t1") /\ \E c \in RecordCalls \cup ReadCalls : Start("t1", c)
    \/ Booted("t1") /\ \E c \in RecordCalls : Reject("t1", c)
    \/ Acquire("t1")
    \/ Get("t1")
    \/ Update("t1")
    \/ Read("t1")
    \/ \E d \in OtherWrites : ExternalWrite("records", d)
    \/ ExternalDelete("records")
    \/ ExternalCreate("records")

SpecServer == InitServer /\ [][NextServer]_vars


(***************************************************************************)
(* Two server processes starting at once: each runs newRecordController's  *)
(* initConfigmap, while other writers may delete, create or update the     *)
(* record configmap.                                                       *)
(***************************************************************************)
\* bounds: deletes, creates and updates of the record configmap by others,
\* errors of the API server
MaxBootWrites == 2
MaxBootErrors == 1

InitBoot ==
    /\ NormIdle /\ ThreadsIdle /\ SyncIdle
    /\ obj \in { [k \in Kinds |-> [exists |-> (k # "records" \/ e), ver |-> 0,
                                    data |-> InitialData(k)]] : e \in BOOLEAN }
    /\ rev = 0
    /\ mayCall = [t \in Threads |-> t \in RaceThreads]
    /\ extLeft = MaxBootWrites
    /\ errLeft = MaxBootErrors

NextBoot ==
    \/ \E t \in RaceThreads : Start(t, InitCall)
    \/ \E t \in RaceThreads : InitProbe(t)
    \/ \E t \in RaceThreads : InitCreate(t)
    \/ \E t \in RaceThreads : InitFault(t)
    \/ \E d \in OtherWrites : ExternalWrite("records", d)
    \/ ExternalDelete("records")
    \/ ExternalCreate("records")

SpecBoot == InitBoot /\ [][NextBoot]_vars
(***************************************************************************)
(* Part 7.  The controller among other configmaps.                         *)
(***************************************************************************)
\* bound: writes of other writers to the watched and the other configmap
MaxNotifyWrites == 2

\* another writer updates CoreDNS's own configmap
OtherWrite(d) ==
    /\ running
    /\ extLeft > 0
    /\ obj["corefile"].exists
    /\ extLeft' = extLeft - 1
    /\ obj' = [obj EXCEPT !["corefile"].ver = rev + 1, !["corefile"].data = d]
    /\ rev' = rev + 1
    /\ UNCHANGED <<normVars, syncVars, facadeVars, threadVars, mayCall, errLeft>>

\* the informer shows its handlers the other configmap: AddFunc the first
\* time, UpdateFunc afterwards, lines 503-517
InformerObserveOther ==
    /\ running
    /\ obj["corefile"].exists
    /\ seen.other # obj["corefile"].ver
    /\ seen' = [seen EXCEPT !.other = obj["corefile"].ver]
    /\ wq' = IF /\ seen.other = -1 \/ UpdateEnqueues([ver |-> seen.other], obj["corefile"])
                /\ FilterConfigmap(OtherName, ConfigmapNamespace)
             THEN QAdd(wq)
             ELSE wq
    /\ UNCHANGED <<normVars, facadeVars, storeVars, threadVars, running, worker, sink, budgetVars>>

InitNotify ==
    /\ NormIdle /\ ThreadsIdle
    /\ running = TRUE
    /\ seen = NothingSeen
    /\ wq = EmptyQueue
    /\ worker = WorkerIdle
    /\ sink = <<>>
    /\ obj \in { [k \in Kinds |-> [exists |-> (k # "records" \/ e), ver |-> 0,
                                    data |-> InitialData(k)]] : e \in BOOLEAN }
    /\ rev = 0
    /\ mayCall = [t \in Threads |-> FALSE]
    /\ extLeft = MaxNotifyWrites
    /\ errLeft = 0

NextNotify ==
    \/ \E d \in RecordMaps : ExternalWrite("records", d)
    \/ ExternalDelete("records")
    \/ ExternalCreate("records")
    \/ \E d \in ExternalData("corefile") : OtherWrite(d)
    \/ InformerObserve
    \/ InformerObserveOther
    \/ WorkerGet
    \/ SyncFetch
    \/ SyncWrite
    \/ WorkerFinish
    \/ WorkerDone

SpecNotify == InitNotify /\ [][NextNotify]_vars

(***************************************************************************)
(* The worker with failing syncs.                                          *)
(***************************************************************************)
\* bounds: failing requests of syncConfigmap, writes of other writers
MaxWorkerErrors == 2
MaxWorkerWrites == 1

\* workqueue.DefaultControllerRateLimiter: the per-item limiter starts at
\* 5 ms, doubles with each failure and stops at 1000 s
baseDelay == 5
maxDelay == 1000000

\* the delay, in ms, of AddRateLimited for a key that failed n times before
Delay(n) == IF baseDelay * 2^n > maxDelay THEN maxDelay ELSE baseDelay * 2^n

InitWorker ==
    /\ NormIdle /\ ThreadsIdle
    /\ running = TRUE
    /\ seen = NothingSeen
    /\ wq = EmptyQueue
    /\ worker = WorkerIdle
    /\ sink = <<>>
    /\ obj \in { [k \in Kinds |-> [exists |-> (k # "records" \/ e), ver |-> 0,
                                    data |-> InitialData(k)]] : e \in BOOLEAN }
    /\ rev = 0
    /\ mayCall = [t \in Threads |-> FALSE]
    /\ extLeft = MaxWorkerWrites
    /\ errLeft = MaxWorkerErrors

SpecWorker == InitWorker /\ [][NextSync]_vars

(***************************************************************************)
(* The controller, the stop signal and the end of the process.             *)
(***************************************************************************)
\* WaitSignal: close(stop).  The informer's goroutines end; Run returns;
\* wait.Until looks at stopCh only between two calls of worker, and worker
\* never returns: the return at line 582 leaves the closure, not the loop.
Stop ==
    /\ running
    /\ running' = FALSE
    /\ UNCHANGED <<normVars, facadeVars, storeVars, threadVars, seen, wq, worker, sink, budgetVars>>

\* what the file can hold when the process ends while the worker is at
\* os.WriteFile: what it held, a part of the content, or all of it
AfterCutWrite(old, data) ==
    UNION { AfterFailedWrite(old, Content(data, order)) : order \in OrdersOf(DOMAIN data) }

\* RunE returns after WaitSignal, main returns and the process exits: the
\* worker's goroutine ends where it is, the queue is left as it is, and a
\* write under way is completed, cut short or not begun
ProcessExit ==
    /\ ~running
    /\ worker.pc # "exited"
    /\ worker' = [worker EXCEPT !.pc = "exited"]
    /\ sink' \in IF worker.pc = "write" THEN AfterCutWrite(sink, worker.fetched.data)
                  ELSE {sink}
    /\ UNCHANGED <<normVars, facadeVars, storeVars, threadVars, running, seen, wq, budgetVars>>

NextStop ==
    \/ NextNotify
    \/ Stop
    \/ ProcessExit

\* the goroutines that are not blocked take their steps
SpecStopFair ==
    /\ InitNotify /\ [][NextStop]_vars
    /\ WF_vars(InformerObserve)
    /\ WF_vars(InformerObserveOther)
    /\ WF_vars(WorkerGet)
    /\ WF_vars(SyncFetch)
    /\ WF_vars(SyncWrite)
    /\ WF_vars(WorkerFinish)
    /\ WF_vars(WorkerDone)
    /\ WF_vars(ProcessExit)

(***************************************************************************)
(* Part 7c.  The installer run again, and two installers at once.          *)
(***************************************************************************)
RunOnceCall ==
    [op |-> Head(RunOnceSteps), domain |-> "", ip |-> "", chain |-> Tail(RunOnceSteps),
     top |-> "RunOnce"]

\* the Corefiles the installer may find
FoundCorefiles == ExternalData("corefile") \cup {trailingCorefile}

\* the objects as the installer may find them
FoundObjects ==
    { [k \in Kinds |->
          [exists |-> (k # "svc" \/ e), ver |-> 0,
           data |-> CASE k = "role" -> r
                      [] k = "deploy" -> d
                      [] k = "svc" -> s
                      [] k = "corefile" -> c
                      [] OTHER -> InitialData(k)]] :
          e \in BOOLEAN, r \in ExternalData("role"), d \in ExternalData("deploy"),
          s \in ExternalData("svc"), c \in FoundCorefiles }

\* one installer, RunOnce after RunOnce, nobody else at the objects
InitTwice ==
    /\ NormIdle /\ ThreadsIdle /\ SyncIdle
    /\ obj \in FoundObjects
    /\ rev = 0
    /\ mayCall = [t \in Threads |-> t = "t1"]
    /\ extLeft = 0
    /\ errLeft = 0

NextTwice ==
    \/ Start("t1", RunOnceCall)
    \/ Advance("t1")
    \/ List("t1")
    \/ OuterGet("t1")
    \/ Get("t1")
    \/ GetFallback("t1")
    \/ Update("t1")
    \/ Again("t1")

SpecTwice == InitTwice /\ [][NextTwice]_vars

\* two installer processes, one RunOnce each
Installers == {"t1", "t3"}

InitInstallers ==
    /\ NormIdle /\ ThreadsIdle /\ SyncIdle
    /\ obj \in { o \in FoundObjects :
                    o["role"].data = InitialData("role") /\ o["svc"].data = InitialData("svc") }
    /\ rev = 0
    /\ mayCall = [t \in Threads |-> t \in Installers]
    /\ extLeft = 0
    /\ errLeft = 0

NextInstallers ==
    \/ \E t \in Installers : Start(t, RunOnceCall)
    \/ \E t \in Installers : Advance(t)
    \/ \E t \in Installers : List(t)
    \/ \E t \in Installers : OuterGet(t)
    \/ \E t \in Installers : Get(t)
    \/ \E t \in Installers : GetFallback(t)
    \/ \E t \in Installers : Update(t)

SpecInstallers == InitInstallers /\ [][NextInstallers]_vars

(***************************************************************************)
(* Part 6.  Properties of the retry-on-conflict call sites.                *)
(***************************************************************************)
RetrySites == {"SetData", "DeleteData", "ensureClusterrole", "ensureDeployment",
               "ensureService"}

Done(t) == pc[t] = "done"

StrictlyIncreasing(s) == \A i \in 1..(Len(s) - 1) : s[i] < s[i + 1]

\* the call of thread t met conflicts only, fewer than the backoff has steps
ConflictsOnly(t) ==
    /\ Done(t) /\ call[t].op \in RetrySites
    /\ hist[t].faults = 0
    /\ hist[t].conflicts < maxAttempts

\* C1: a call of SetData, DeleteData, ensureClusterrole, ensureDeployment or
\* ensureService that met k < maxAttempts conflicts on its updates and no
\* other error has returned nil, has run its closure exactly k+1 times, and
\* every run fetched an object of a strictly newer resourceVersion than the
\* run before.
C1_ConflictRetry ==
    \A t \in Threads :
        ConflictsOnly(t) =>
            /\ ret[t] = "ok"
            /\ hist[t].runs = hist[t].conflicts + 1
            /\ Len(hist[t].vers) = hist[t].runs
            /\ StrictlyIncreasing(hist[t].vers)

\* a call that met maxAttempts - 1 conflicts and then had its update accepted
C1_Witness ==
    \E t \in Threads :
        /\ ConflictsOnly(t)
        /\ hist[t].conflicts = maxAttempts - 1
        /\ hist[t].writes = 1
        /\ ret[t] = "ok"

\* the call of thread t has had maxAttempts updates refused with a conflict
Exhausted(t) == call[t].op \in RetrySites /\ hist[t].conflicts >= maxAttempts

\* a step in which an update of thread t is refused with a conflict
ConflictStep(t) == hist'[t].conflicts = hist[t].conflicts + 1

\* C2: a call whose updates all meet a conflict runs its closure at most
\* maxAttempts times, then returns the conflict as its error, and none of its
\* updates has changed the stored object: a refused update leaves the object
\* as the other writers left it.
C2_Exhaustion ==
    /\ [](\A t \in Threads :
            /\ hist[t].runs <= maxAttempts
            /\ Exhausted(t) =>
                  /\ Done(t) /\ ret[t] = "conflict"
                  /\ hist[t].runs = maxAttempts
                  /\ hist[t].conflicts = maxAttempts
                  /\ hist[t].writes = 0)
    /\ [][\A t \in Threads : ConflictStep(t) => obj' = obj]_vars

\* a call that returned the conflict after maxAttempts refused updates
C2_Witness ==
    \E t \in Threads :
        /\ Exhausted(t) /\ Done(t) /\ ret[t] = "conflict"
        /\ hist[t].faults = 0

\* the record configmap shows what the call c asked for
Reflects(data, c) ==
    IF c.op = "SetData"
    THEN c.domain \in DOMAIN data /\ data[c.domain] = c.ip
    ELSE c.domain \notin DOMAIN data

BothReturned ==
    /\ Done("t1") /\ ret["t1"] = "ok"
    /\ Done("t3") /\ ret["t3"] = "ok"
    /\ call["t1"].domain # call["t3"].domain

\* C3: when two server processes have run SetData or DeleteData for different
\* domains, in any interleaving of their Gets and Updates, and both calls
\* returned nil, the record configmap shows both operations.
C3_NoLostUpdate ==
    BothReturned =>
        /\ Reflects(obj["records"].data, call["t1"])
        /\ Reflects(obj["records"].data, call["t3"])

\* both calls changed the configmap and one of them had an update refused
C3_Witness ==
    /\ BothReturned
    /\ hist["t1"].writes = 1 /\ hist["t3"].writes = 1
    /\ hist["t1"].conflicts + hist["t3"].conflicts >= 1
    /\ obj["records"].ver = 2

\* what a closure that depends on the fetched object alone can write
WriteFromFetch(c, base) ==
    IF c.op = "ensureCoreDNSConfigmap"
    THEN { r.text : r \in BuildResults(base) }
    ELSE { Body(c, base, <<>>).data }

\* C4: at every call site, ensureCoreDNSConfigmap included, the content an
\* accepted update writes is computed from the object fetched in the same
\* run of the closure, never from an earlier Get.
C4_WriteFromSameFetch ==
    \A t \in Threads :
        hist[t].writes > 0 => hist[t].written \in WriteFromFetch(call[t], hist[t].base)

(***************************************************************************)
(* Part 7.  Properties of the configmap controller.                        *)
(***************************************************************************)
Lines(data) == { Item(k, data[k]) : k \in DOMAIN data }

\* the file holds one line per entry of data and nothing else
SinkHolds(s, data) ==
    /\ Len(s) = Cardinality(DOMAIN data)
    /\ { s[i] : i \in 1..Len(s) } = Lines(data)

SinkMatches == SinkHolds(sink, obj["records"].data)

\* C5: when the watched configmap exists from some point on and is no longer
\* modified, and Gets and file writes succeed in the end, then with the
\* informer, the timer and the worker kept running the hosts file comes to
\* hold exactly the lines of the configmap's final content and keeps them.
C5_EventuallyConsistent == <>[](obj["records"].exists) => <>[]SinkMatches

\* the file holds the final content once the other writers have made all
\* their writes and syncs have failed
C5_Witness ==
    /\ extLeft = 0 /\ errLeft = 0
    /\ obj["records"].exists /\ obj["records"].data # EmptyMap
    /\ SinkMatches
    /\ worker.pc = "get" /\ wq.queue = <<>> /\ ~wq.delayed
    /\ wq.failures = 0 /\ seen.ver = obj["records"].ver

\* C6: after a syncConfigmap that wrote the file, the file holds exactly one
\* line "<value> <key>" for every entry of the configmap that this sync
\* fetched and no other line, whatever the file held before and whatever the
\* informer had shown its handlers.
C6_FullOverwrite ==
    worker.case = "written" => SinkHolds(sink, worker.fetched.data)

\* a sync wrote the file, which held a line that the fetched configmap has
\* not, from a configmap newer than the one the handlers were shown
C6_Witness ==
    /\ worker.case = "written"
    /\ \E i \in 1..Len(worker.before) : worker.before[i] \notin Lines(worker.fetched.data)
    /\ worker.fetched.data # EmptyMap
    /\ worker.fetched.ver # seen.ver

\* the worker ends a sync that found no configmap: its Forget, or its Done
NotFoundFinish ==
    worker.case = "notfound" /\ worker.pc \in {"finish", "done"} /\ worker'.pc # worker.pc

\* C7: a syncConfigmap whose Get reports not-found returns nil and leaves the
\* hosts file as it was; the worker then forgets the key and does not add it
\* again (the key is queued again only when a notification marked it dirty
\* during the sync).
C7_NotFoundNoOp ==
    /\ [](worker.case = "notfound" => worker.res = "ok" /\ sink = worker.before)
    /\ [][NotFoundFinish =>
              /\ wq'.failures = 0
              /\ wq'.delayed = wq.delayed
              /\ (wq'.queue # wq.queue => wq.dirty)
              /\ sink' = sink]_vars

\* a sync found no configmap while the file held lines, after an earlier
\* sync had failed, and the worker is back at workqueue.Get
C7_Witness ==
    /\ worker.case = "notfound" /\ worker.pc = "get"
    /\ sink # <<>> /\ sink = worker.before
    /\ wq.failures = 0 /\ wq.queue = <<>> /\ ~wq.delayed
    /\ errLeft < MaxSyncErrors

(***************************************************************************)
(* Part 8.  Properties of the record store.                                *)
(***************************************************************************)
\* the calls thread t has completed, in order
CallsOfThread(t) == trail[t] \o (IF Done(t) THEN <<Completed(t)>> ELSE <<>>)

\* nobody changed the configmap between call e1 and the first Get of call e2
NoInterference(e1, e2) == e1.end >= 0 /\ e2.first = e1.end

\* the call found the configmap as it asks it to be
FoundAsAsked(t) ==
    /\ Done(t) /\ call[t].op \in RecordOps
    /\ fetched[t].kind = "records"
    /\ Reflects(fetched[t].data, call[t])

\* C14: SetData(d, ip) on a configmap that maps d to ip, and DeleteData(d) on
\* one that has no d, return nil without an Update, the configmap's content
\* and resourceVersion as they were; so of two SetData(d, ip) calls in a row
\* with no write of anybody else between them the second one writes nothing
\* and both together make at most one Update; a call that returns nil and did
\* not find the configmap as asked made exactly one.
C14_ShortCircuit ==
    /\ [](\A t \in Threads :
            /\ FoundAsAsked(t) => ret[t] = "ok" /\ hist[t].writes = 0
            /\ (/\ Done(t) /\ call[t].op \in RecordOps /\ ret[t] = "ok"
                /\ ~FoundAsAsked(t)) => hist[t].writes = 1
            /\ \A i \in 1..(Len(CallsOfThread(t)) - 1) :
                  LET e1 == CallsOfThread(t)[i]
                      e2 == CallsOfThread(t)[i + 1]
                  IN (/\ e1.call.op = "SetData" /\ e2.call = e1.call
                      /\ e1.ret = "ok" /\ e2.ret = "ok"
                      /\ NoInterference(e1, e2))
                     => e2.writes = 0 /\ e1.writes <= 1)
    /\ [][\A t \in Threads :
            (pc[t] = "get" /\ pc'[t] = "done") => (obj' = obj /\ rev' = rev)]_vars

\* a SetData that wrote, followed by the same SetData that did not
C14_Witness ==
    /\ Len(CallsOfThread("t1")) = 2
    /\ LET e1 == CallsOfThread("t1")[1]
           e2 == CallsOfThread("t1")[2]
       IN /\ e1.call.op = "SetData" /\ e2.call = e1.call
          /\ e1.ret = "ok" /\ e2.ret = "ok"
          /\ NoInterference(e1, e2)
          /\ e1.writes = 1 /\ e2.writes = 0
          /\ obj["records"].ver = e1.end

\* C15: with no write of anybody else in between, GetData(d) after a
\* SetData(d, ip) that returned nil returns the record {d, ip}, and GetData(d)
\* after a DeleteData(d) that returned nil returns an error naming d and no
\* record of d.
C15_ReadAfterWrite ==
    \A t \in Threads :
        \A i \in 1..(Len(CallsOfThread(t)) - 1) :
            LET e1 == CallsOfThread(t)[i]
                e2 == CallsOfThread(t)[i + 1]
            IN (/\ e1.call.op \in RecordOps /\ e1.ret = "ok"
                /\ e2.call.op = "GetData" /\ e2.call.domain = e1.call.domain
                /\ NoInterference(e1, e2))
               => IF e1.call.op = "SetData"
                  THEN /\ e2.ret = "ok"
                       /\ e2.result.records =
                              <<[Domain |-> e1.call.domain, IP |-> e1.call.ip]>>
                  ELSE /\ e2.ret = "nodomain"
                       /\ e2.result.errDomain = e1.call.domain
                       /\ \A j \in 1..Len(e2.result.records) :
                              e2.result.records[j].Domain = ""

\* a DeleteData that removed the domain, followed by a GetData of it
C15_Witness ==
    /\ Len(CallsOfThread("t1")) = 2
    /\ LET e1 == CallsOfThread("t1")[1]
           e2 == CallsOfThread("t1")[2]
       IN /\ e1.call.op = "DeleteData" /\ e1.ret = "ok" /\ e1.writes = 1
          /\ e2.call.op = "GetData" /\ e2.call.domain = e1.call.domain
          /\ NoInterference(e1, e2)
          /\ e2.ret = "nodomain"

\* the call had an Update accepted and the configmap is as that Update left it
JustWritten(t) ==
    /\ Done(t) /\ call[t].op \in RecordOps
    /\ hist[t].writes = 1
    /\ obj["records"].exists /\ obj["records"].ver = hist[t].stamp

\* C16: once an Update of SetData (DeleteData) is accepted the closure looks
\* at the configmap the Update returned: when the domain is not there with
\* the address asked for (is still there) the call returns an error that is
\* no conflict, without another attempt; otherwise it returns nil.
C16_PostWriteCheck ==
    \A t \in Threads :
        JustWritten(t) =>
            /\ ret[t] = (IF Reflects(obj["records"].data, call[t]) THEN "ok" ELSE "integrity")
            /\ hist[t].runs = hist[t].conflicts + 1

\* an accepted Update after a conflict left the configmap without the change
C16_Witness ==
    \E t \in Threads :
        /\ JustWritten(t)
        /\ ret[t] = "integrity"
        /\ hist[t].conflicts >= 1

\* thread t is between r.lock.Lock() and its return
InLock(t) == pc[t] \in {"get", "update", "read"}

\* C17: of the SetData, DeleteData, GetData and GetDatas calls of one process
\* at most one is between taking the lock and returning, over all the
\* attempts of a call, and it is the one that holds the lock.
C17_MutualExclusion ==
    \A t \in StoreThreads :
        InLock(t) =>
            /\ lock[ProcOf(t)] = t
            /\ \A u \in StoreThreads \ {t} : ProcOf(u) = ProcOf(t) => ~InLock(u)

\* one call is in its second attempt while the other waits for the lock
C17_Witness ==
    /\ InLock("t1") /\ hist["t1"].conflicts >= 1 /\ pc["t1"] = "update"
    /\ pc["t2"] = "lock"

(***************************************************************************)
(* Part 9.  Properties of RunOnce.                                         *)
(***************************************************************************)
\* thread t is in RunOnce
InRunOnce(t) == pc[t] # "idle" /\ call[t].top = "RunOnce"

\* RunOnce is at step i and the steps after it are still to come
AtStep(t, i) ==
    /\ call[t].op = RunOnceSteps[i]
    /\ call[t].chain = SubSeq(RunOnceSteps, i + 1, Len(RunOnceSteps))

\* a step of RunOnce has returned an error
StepFailed(t) == InRunOnce(t) /\ pc[t] = "done" /\ ret[t] # "ok"

\* C18: RunOnce runs ensureClusterrole, ensureDeployment, ensureService and
\* ensureCoreDNSConfigmap in this order; it goes from one step to the next
\* one only when the step returned nil; when a step returns an error RunOnce
\* does nothing more, neither a Get nor an Update, and the returning step and
\* everything after it leave the objects the earlier steps wrote as they are.
C18_RunOnceOrder ==
    /\ [](\A t \in Threads :
            InRunOnce(t) => \E i \in 1..Len(RunOnceSteps) : AtStep(t, i))
    /\ [][\A t \in Threads :
            /\ (pc[t] = "idle" /\ InRunOnce(t)') => AtStep(t, 1)'
            /\ (InRunOnce(t) /\ call'[t] # call[t]) =>
                  /\ pc[t] = "done" /\ ret[t] = "ok"
                  /\ \E i \in 1..(Len(RunOnceSteps) - 1) : AtStep(t, i) /\ AtStep(t, i + 1)'
            /\ StepFailed(t) =>
                  /\ pc'[t] = pc[t] /\ call'[t] = call[t] /\ ret'[t] = ret[t]
                  /\ hist'[t] = hist[t] /\ fetched'[t] = fetched[t]
            /\ (InRunOnce(t) /\ ~StepFailed(t) /\ StepFailed(t)') => obj' = obj]_vars

\* the last step fails after the steps before it have written their objects
C18_Witness ==
    /\ StepFailed("t1") /\ AtStep("t1", 4)
    /\ obj["role"].data = ClusterroleBody(InitialData("role")).data
    /\ obj["deploy"].data = DeploymentBody(InitialData("deploy")).data
    /\ obj["deploy"].data # InitialData("deploy")

\* a request of thread t is answered in this step with an error that is no
\* conflict
ErrorAnswered(t) == hist'[t].faults > hist[t].faults

\* C24: at every call site a Get or Update error that is no conflict ends the
\* call in the same step with that error, ensureService's Get of the
\* configured service included: no later Get or Update of the call follows.
C24_ErrorEndsCall ==
    [][\A t \in Threads :
          ErrorAnswered(t) => (pc'[t] = "done" /\ ret'[t] = "error")]_vars

(***************************************************************************)
(* Part 10.  Properties of the work queue.                                 *)
(***************************************************************************)
\* how often key k stands in the queue
Occurrences(q, k) == Cardinality({ i \in 1..Len(q) : q[i] = k })

\* this step is an Add that found the key waiting in the queue
AddOnQueued == wq.queue # <<>> /\ ~wq.merged /\ wq'.merged

\* C19: the queue never holds the key more than once; an Add of a key that
\* waits in the queue leaves the queue as it is, so the Adds made before the
\* worker's Get are answered by one Get, after which the queue is empty.
C19_QueueDedup ==
    /\ [](/\ Occurrences(wq.queue, QueueKey) <= 1
          /\ wq.merged => wq.dirty)
    /\ [][/\ AddOnQueued => wq'.queue = wq.queue
          /\ (wq.queue # <<>> /\ wq'.processing /\ ~wq.processing) => wq'.queue = <<>>]_vars

\* the key waits in the queue, once, after more than one Add
C19_Witness ==
    /\ wq.queue = <<QueueKey>>
    /\ wq.merged
    /\ worker.pc = "get"

\* this step is an Add made while the worker has the key
AddOnProcessing == wq.processing /\ ~wq.dirty /\ wq'.dirty

\* C20: the worker has the key exactly while it is between Get and Done; as
\* long as it has it the key is not in the queue, so no second Get can hand
\* it out; an Add made in that time changes neither queue nor sync, and Done
\* then queues the key once.
C20_OneSyncInFlight ==
    /\ [](/\ wq.processing <=> worker.pc # "get"
          /\ wq.processing => wq.queue = <<>>)
    /\ [][/\ AddOnProcessing => (wq'.queue = wq.queue /\ worker' = worker)
          /\ (wq.processing /\ wq.dirty /\ ~wq'.processing) => wq'.queue = <<QueueKey>>]_vars

\* an Add arrived while syncConfigmap was between its Get and its write
C20_Witness ==
    /\ wq.processing /\ wq.dirty
    /\ worker.pc = "write"
    /\ wq.queue = <<>>

(***************************************************************************)
(* Part 12.  Properties of the server process.                             *)
(***************************************************************************)
\* thread t takes a step of its call here
Steps(t) == pc'[t] # pc[t]

\* the four operations of the record store
StoreOps == RecordOps \cup {"GetData", "GetDatas"}

\* the step is one on which the API server answered with an error of its own
ServerFault == errLeft' # errLeft

\* C25: initConfigmap creates the record configmap, empty, exactly when its
\* Get says not-found, and changes nothing when the configmap exists or when
\* the Get or the Create fails for another reason;
\* SetData, DeleteData, GetData and GetDatas never create it: on a missing
\* configmap they return an error and have written nothing.
C25_CreateOnlyAtBoot ==
    /\ [](\A t \in Threads :
            (Done(t) /\ call[t].op \in StoreOps /\ ret[t] = "error") => hist[t].writes = 0)
    /\ [][\A t \in Threads :
            /\ (Steps(t) /\ pc[t] = "probe" /\ ~ServerFault) =>
                  IF obj["records"].exists
                  THEN pc'[t] = "done" /\ ret'[t] = "ok" /\ obj' = obj
                  ELSE pc'[t] = "create" /\ obj' = obj
            /\ (Steps(t) /\ pc[t] = "create" /\ ~obj["records"].exists /\ ~ServerFault) =>
                  /\ obj'["records"].exists /\ obj'["records"].data = EmptyMap
                  /\ ret'[t] = "ok"
            /\ (Steps(t) /\ pc[t] \in {"probe", "create"} /\ ServerFault) =>
                  pc'[t] = "done" /\ ret'[t] = "error" /\ obj' = obj
            /\ (Steps(t) /\ obj'["records"].exists /\ ~obj["records"].exists) =>
                  call[t].op = "initConfigmap"
            /\ (/\ Steps(t) /\ call[t].op \in StoreOps
                /\ pc[t] \in {"get", "read", "update"} /\ ~obj["records"].exists) =>
                  pc'[t] = "done" /\ ret'[t] = "error" /\ obj' = obj]_vars

\* initConfigmap created the configmap, another writer deleted it, and the
\* request that followed returned an error and left it missing
C25_Witness ==
    /\ Booted("t1") /\ trail["t1"][1].writes = 1
    /\ Done("t1") /\ call["t1"].op \in RecordOps /\ ret["t1"] = "error"
    /\ ~obj["records"].exists

\* C26: every request gets the status 200, and the body's code is 0 when the
\* operation succeeded and 1 when it failed.
C26_AlwaysStatusOK ==
    \A t \in Threads :
        (Done(t) /\ call[t].op \in StoreOps) =>
            /\ Response(ret[t]).status = 200
            /\ Response(ret[t]).code = (IF ret[t] = "ok" THEN 0 ELSE 1)


\* initConfigmap's Get of thread t answered not-found
ProbedAbsent(t) ==
    /\ call[t].op = "initConfigmap"
    /\ pc[t] \in {"create", "done"}
    /\ hist[t].runs = 1 /\ hist[t].vers = <<>>

\* initConfigmap of thread t returned after its Create
CreateAnswered(t) == ProbedAbsent(t) /\ pc[t] = "done"

\* C32: when initConfigmap's Get says not-found and its Create is refused
\* because the configmap is there by now, initConfigmap returns that error,
\* leaves the configmap as the other process made it and does not try again
\* (one Get and at most one Create per call); so when two processes have
\* both seen the configmap missing, no other writer has touched it and the
\* API server has answered every call,
\* exactly one of them created it and returned nil and the other returned
\* the error, having written nothing.
C32_BootstrapRace ==
    /\ [](\A t \in RaceThreads :
            call[t].op = "initConfigmap" => hist[t].runs <= 1 /\ hist[t].writes <= 1)
    /\ []((/\ CreateAnswered("t1") /\ CreateAnswered("t3")
           /\ extLeft = MaxBootWrites /\ errLeft = MaxBootErrors) =>
            /\ obj["records"].exists /\ obj["records"].data = EmptyMap
            /\ \E w \in RaceThreads :
                 /\ ret[w] = "ok" /\ hist[w].writes = 1
                 /\ hist[w].stamp = obj["records"].ver
                 /\ \A l \in RaceThreads \ {w} :
                      ret[l] = "error" /\ hist[l].writes = 0 /\ hist[l].faults = 1)
    /\ [][\A t \in RaceThreads :
            (Steps(t) /\ pc[t] = "create" /\ obj["records"].exists) =>
                /\ pc'[t] = "done" /\ ret'[t] = "error"
                /\ hist'[t].writes = 0
                /\ obj' = obj]_vars

\* both processes saw the configmap missing; the first created it, the
\* second's Create was refused and its initConfigmap returned the error
C32_Witness ==
    /\ CreateAnswered("t1") /\ CreateAnswered("t3")
    /\ extLeft = MaxBootWrites /\ errLeft = MaxBootErrors
    /\ ret["t1"] = "ok" /\ hist["t1"].writes = 1
    /\ ret["t3"] = "error" /\ hist["t3"].faults = 1
    /\ obj["records"].exists
(***************************************************************************)
(* Part 11.  Properties of the controller's handlers and worker.           *)
(***************************************************************************)
\* this step is a notification
Notified == seen' # seen

\* this step is AddFunc or UpdateFunc on the watched configmap
NotifiedWatched ==
    /\ seen'.other = seen.other
    /\ seen'.exists
    /\ ~seen.exists \/ seen'.ver # seen.ver

\* C21: only AddFunc and UpdateFunc on kube-system/coredns-hosts-api put the
\* key into the queue, and the key is the only one there; a notification of
\* another configmap and every delete notification leave the queue as it is,
\* and no notification changes the hosts file.
C21_NotificationFilter ==
    /\ [](\A i \in 1..Len(wq.queue) : wq.queue[i] = QueueKey)
    /\ [][/\ (Notified /\ ~NotifiedWatched) => wq' = wq
          /\ Notified => sink' = sink
          /\ (~wq.dirty /\ wq'.dirty) => (Notified /\ NotifiedWatched)
          /\ Len(wq'.queue) > Len(wq.queue) =>
                \/ Notified /\ NotifiedWatched
                \/ wq.dirty /\ wq.processing /\ ~wq'.processing]_vars

\* the other configmap was shown after a change and the watched one was
\* shown deleted after a sync, and the queue is empty
C21_Witness ==
    /\ seen.other > 0
    /\ ~seen.exists /\ ~obj["records"].exists
    /\ worker.pc = "get" /\ worker.case = "written"
    /\ wq = EmptyQueue

\* this step is the worker's AddRateLimited or Forget, lines 585-592
Finishes == worker.pc = "finish" /\ worker'.pc # "finish"

\* this step is the worker's deferred Done
Dones == worker.pc = "done" /\ worker'.pc # "done"

\* C22: when syncConfigmap has returned the worker calls Done for the key and
\* goes back to Get, whatever the sync returned; after an error the key is
\* handed to the rate limiter, its failure count is one more than before and
\* the delay for it longer; after nil the failure count is 0, nothing is
\* handed to the rate limiter and the key is queued again only if a
\* notification marked it during the sync.
C22_WorkerOutcome ==
    /\ [](/\ worker.pc \in {"get", "fetch", "write", "finish", "done"}
          /\ worker.pc = "get" => ~wq.processing
          /\ worker.pc = "done" =>
                IF worker.res = "err" THEN wq.failures > 0 ELSE wq.failures = 0)
    /\ [][/\ Finishes =>
               /\ worker'.pc = "done"
               /\ wq'.queue = wq.queue
               /\ IF worker.res = "err"
                  THEN /\ wq'.failures = wq.failures + 1
                       /\ Delay(wq'.failures) > Delay(wq.failures)
                       /\ wq'.delayed
                  ELSE /\ wq'.failures = 0
                       /\ wq'.delayed = wq.delayed
          /\ Dones =>
               /\ worker'.pc = "get"
               /\ ~wq'.processing
               /\ wq'.failures = wq.failures /\ wq'.delayed = wq.delayed
               /\ wq'.queue # wq.queue => wq.dirty]_vars

\* the key failed twice in a row and the worker waits for the next key
C22_Witness ==
    /\ wq.failures = 2
    /\ worker.pc = "get" /\ worker.res = "err"
    /\ ~wq.processing

\* the worker's goroutine has ended
WorkerExited == worker.pc = "exited"

\* the worker ended between two rounds of its loop: no key was in hand
LeftTheLoop == WorkerExited /\ ~wq.processing

\* C23: after close(stop) the worker's loop sees the signal and the worker
\* leaves the loop, also when it waits in workqueue.Get: the worker ends, no
\* worker goes on working or waiting for ever, and it ends between two
\* rounds of its loop, not in the middle of a sync.
C23_StopEndsWorker ==
    /\ (~running) ~> WorkerExited
    /\ [](WorkerExited => LeftTheLoop)

\* what does hold: after close(stop) the worker ends with the process, and
\* runs no step after that
C23_EndsWithProcess ==
    /\ (~running) ~> WorkerExited
    /\ [][WorkerExited => (worker' = worker /\ wq' = wq /\ sink' = sink)]_vars


(***************************************************************************)
(* The frame of a record write.                                            *)
(***************************************************************************)
\* maps a and b have the same entry, or both none, for every domain but d
SameElsewhere(a, b, d) ==
    \A x \in Domains \ {d} :
        /\ x \in DOMAIN a <=> x \in DOMAIN b
        /\ x \in DOMAIN a => a[x] = b[x]

\* the call of thread t returned nil after an Update of its own was accepted
WroteAndReturned(t) ==
    /\ pc[t] = "done" /\ ret[t] = "ok"
    /\ call[t].op \in RecordOps
    /\ hist[t].writes > 0

\* C31: a successful SetData(d, ip) changes at most the entry of d and a
\* successful DeleteData(d) removes at most the entry of d: in the object the
\* call sent to Update every other domain has the entry it had in the object
\* fetched in the same attempt, d has the address asked for (SetData) or no
\* entry (DeleteData), the object sent is a map with one address per domain,
\* and as long as nobody has written since, it is what the server holds.
C31_RecordFrame ==
    \A t \in RaceThreads :
        WroteAndReturned(t) =>
            LET d == call[t].domain
                base == hist[t].base
                written == hist[t].written
            IN /\ SameElsewhere(base, written, d)
               /\ written \in RecordMaps
               /\ IF call[t].op = "SetData"
                  THEN d \in DOMAIN written /\ written[d] = call[t].ip
                  ELSE d \notin DOMAIN written
               /\ obj["records"].ver = hist[t].stamp => obj["records"].data = written

\* a DeleteData that met a conflict and a SetData of the other process have
\* both written an object in which the other domain has an entry
C31_Witness ==
    /\ WroteAndReturned("t1") /\ WroteAndReturned("t3")
    /\ call["t1"].op = "DeleteData" /\ call["t3"].op = "SetData"
    /\ hist["t1"].conflicts > 0
    /\ DOMAIN hist["t1"].base = Domains
    /\ DOMAIN hist["t3"].base = Domains
(***************************************************************************)
(* Part 13.  Properties of repeated and concurrent installer runs.         *)
(***************************************************************************)
\* how many members of a sequence satisfy a test
CountOf(seq, Test(_)) == Cardinality({ i \in 1..Len(seq) : Test(seq[i]) })

\* the object of kind k has the shape the installer wants
TargetShape(k, data) ==
    CASE k = "role" -> \E i \in 1..Len(data) : data[i] = addRule
      [] k = "deploy" ->
            /\ \E i \in 1..Len(data.Containers) :
                   data.Containers[i].Name = coreDNSHostsServerName
            /\ \E i \in 1..Len(data.Volumes) : data.Volumes[i].Name = volumeName
            /\ \A i \in 1..Len(data.Containers) :
                   \E j \in 1..Len(data.Containers[i].VolumeMounts) :
                       data.Containers[i].VolumeMounts[j].Name = volumeName
      [] k \in {"svc", "kubedns"} -> \E i \in 1..Len(data) : data[i].Port = ServerPort
      [] k = "corefile" -> \A r \in BuildResults(data) : ~r.err /\ ~r.needUpdate

\* the object the step of thread t is about to fetch and decide on
Deciding(t) ==
    CASE pc[t] = "get2" -> "kubedns"
      [] pc[t] = "get" /\ call[t].op # "ensureCoreDNSConfigmap" -> Target(call[t].op)
      [] pc[t] = "outer" -> "corefile"
      [] OTHER -> "none"

\* thread t has been through a whole RunOnce that returned nil
RanOnce(t) ==
    /\ trail[t] # <<>>
    /\ trail[t][1].call.top = "RunOnce" /\ trail[t][1].call.chain = <<>>
    /\ trail[t][1].ret = "ok"

\* C29: a step of the installer that fetches an object which has the target
\* shape already (the rule, the sidecar container with the volume and a mount
\* of its name in every container, the port, a Corefile for which
\* BuildNewCoreFile reports needUpdate false) returns nil without an Update;
\* so a RunOnce after a RunOnce that returned nil, nobody else writing,
\* changes no object and every step of it returns nil without an Update.
C29_WriteOnlyOnDifference ==
    /\ [](\A t \in Threads :
            (RanOnce(t) /\ Done(t)) => (ret[t] = "ok" /\ hist[t].writes = 0))
    /\ [][\A t \in Threads :
            /\ (/\ pc'[t] # pc[t] /\ Deciding(t) # "none"
                /\ obj[Deciding(t)].exists
                /\ TargetShape(Deciding(t), obj[Deciding(t)].data)) =>
                  (pc'[t] = "done" /\ ret'[t] = "ok" /\ obj' = obj)
            /\ RanOnce(t) => (obj' = obj /\ rev' = rev)]_vars

\* what does hold: a step that fetches an object in target shape returns nil
\* without an Update, and a RunOnce after a RunOnce that returned nil leaves
\* the role, the deployment and the services alone, and the Corefile too
\* when the stored text is one for which BuildNewCoreFile reports no change
C29_StepsWriteOnDifference ==
    [][\A t \in Threads :
          /\ (/\ pc'[t] # pc[t] /\ Deciding(t) # "none"
              /\ obj[Deciding(t)].exists
              /\ TargetShape(Deciding(t), obj[Deciding(t)].data)) =>
                (pc'[t] = "done" /\ ret'[t] = "ok" /\ obj' = obj)
          /\ RanOnce(t) => \A k \in Kinds \ {"corefile"} : obj'[k] = obj[k]
          /\ (RanOnce(t) /\ TargetShape("corefile", obj["corefile"].data)) =>
                (obj' = obj /\ rev' = rev)]_vars

IsSidecar(c) == c.Name = coreDNSHostsServerName

IsSharedVolume(v) == v.Name = volumeName

IsAddRule(r) == r = addRule

IsApiPort(p) == p.Port = ServerPort

\* C30: however two installers and their retries interleave, the deployment
\* has at most one container coredns-hosts-server, at most one volume
\* shared-data and at most one mount shared-data in each container, the role
\* has the configmaps rule at most once, and each service the port at most
\* once.
C30_NoDuplicates ==
    /\ CountOf(obj["deploy"].data.Containers, IsSidecar) <= 1
    /\ CountOf(obj["deploy"].data.Volumes, IsSharedVolume) <= 1
    /\ \A i \in 1..Len(obj["deploy"].data.Containers) :
           CountOf(obj["deploy"].data.Containers[i].VolumeMounts, IsSharedVolume) <= 1
    /\ CountOf(obj["role"].data, IsAddRule) <= 1
    /\ CountOf(obj["svc"].data, IsApiPort) <= 1
    /\ CountOf(obj["kubedns"].data, IsApiPort) <= 1

\* both installers are through, one of them after a conflict in its last
\* step, and the deployment has the container once
C30_Witness ==
    /\ \A t \in Installers :
           Done(t) /\ call[t].chain = <<>> /\ ret[t] = "ok" /\ call[t].top = "RunOnce"
    /\ \E t \in Installers : hist[t].conflicts >= 1
    /\ CountOf(obj["deploy"].data.Containers, IsSidecar) = 1
    /\ obj["deploy"].ver > 0

(***************************************************************************)
(* Reading a Corefile's structure back, for the properties below.          *)
(***************************************************************************)
\* the bodies of the server blocks of a text, as lines of items in the order
\* of the text: the keys are passed over as parser.addresses does, a block
\* of keys alone has no lines, a block without keys is none
RECURSIVE BodiesOf(_, _, _)
BodiesOf(text, c, acc) ==
    LET n == DNext(text, c) IN
    IF ~n.ok THEN acc
    ELSE LET a == Addresses(text, n.c, <<>>, FALSE) IN
         IF a.err THEN acc
         ELSE IF a.eof THEN (IF a.keys = <<>> THEN acc ELSE Append(acc, <<>>))
         ELSE LET b == constructBlock(text, IF Val(text, a.c) = "{" THEN a.c ELSE a.c - 1) IN
              BodiesOf(text, b.c, IF a.keys = <<>> THEN acc ELSE Append(acc, b.block))

Bodies(text) == BodiesOf(text, 0, <<>>)

IsStr(x, s) == x.kind = "str" /\ x.val = s

IsHostsLine(item) == IsStr(item[1], "hosts")

HostsLinesOf(body) == SelectSeq(body, IsHostsLine)

\* the canonical path is one of the line's own arguments
HasPathArgument(item) == \E i \in 2..Len(item) : IsStr(item[i], hostsPath)

\* the canonical path is the line's first argument, or the first argument
\* of a nested body of the line
HasPathFirst(item) ==
    \/ Len(item) >= 2 /\ IsStr(item[2], hostsPath)
    \/ \E i \in 2..Len(item) :
           /\ item[i].kind = "blk"
           /\ Len(item[i].val) >= 1
           /\ IsStr(item[i].val[1][1], hostsPath)

\* the managed-stanza invariant as the data model words it
StanzaFirstArgument(text) ==
    \A b \in 1..Len(Bodies(text)) :
        LET hs == HostsLinesOf(Bodies(text)[b]) IN
        /\ hs # <<>>
        /\ \A k \in 1..Len(hs) : HasPathFirst(hs[k])

\* every block has a hosts line, and every hosts line names the path among
\* its own arguments
StanzaOwnArgument(text) ==
    \A b \in 1..Len(Bodies(text)) :
        LET hs == HostsLinesOf(Bodies(text)[b]) IN
        /\ hs # <<>>
        /\ \A k \in 1..Len(hs) : HasPathArgument(hs[k])

\* the lines of every block stand in the order BuildNewCoreFile emits them
InEmissionOrder(text) ==
    \A b \in 1..Len(Bodies(text)) :
        LET body == Bodies(text)[b] IN
        \A i, j \in 1..Len(body) : i < j => Rank(body[i][1].val) <= Rank(body[j][1].val)

\* the text is a document: Parse accepts it
IsDocument(text) == ~Parse(text).err

\* the selector keys of the blocks of a text, block by block
KeysOf(text) == [i \in 1..Len(Parse(text).blocks) |-> Parse(text).blocks[i].Keys]

\* the document a text stands for: the keys and the lines of every block
DocumentOf(text) ==
    [i \in 1..Len(Bodies(text)) |-> [Keys |-> KeysOf(text)[i], Body |-> Bodies(text)[i]]]

\* two texts stand for the same document
SameDocument(a, b) == DocumentOf(a) = DocumentOf(b)

\* an argument stands behind a nested block in a line of the body
RECURSIVE BehindBlockIn(_)
BehindBlockIn(body) ==
    \E l \in 1..Len(body) :
        \E i \in 1..Len(body[l]) :
            /\ body[l][i].kind = "blk"
            /\ \/ i < Len(body[l]) /\ body[l][i].val # <<>>
               \/ BehindBlockIn(body[l][i].val)

BehindBlock(text) == \E b \in 1..Len(Bodies(text)) : BehindBlockIn(Bodies(text)[b])

\* C8: in every block of the document BuildNewCoreFile returns
\* there is a hosts line, and every hosts line has the canonical path as its
\* first argument, at top level or first in its nested body.
C8_StanzaFirstArgument ==
    (built.done /\ ~built.err) => StanzaFirstArgument(built.text)

\* for the documents without an argument behind a nested block: in every
\* block of the returned document there is a hosts line, every hosts line has
\* the canonical path among its own top-level arguments, and a line that
\* came without it has it as its first argument
C8_StanzaOwnArgument ==
    (built.done /\ ~built.err /\ ~BehindBlock(corefile)) =>
        LET ins == Bodies(corefile)
            outs == Bodies(built.text)
        IN /\ Len(outs) = Len(ins)
           /\ StanzaOwnArgument(built.text)
           /\ \A b \in 1..Len(ins) :
                  LET hin == HostsLinesOf(ins[b])
                      hout == HostsLinesOf(outs[b])
                  IN /\ Len(hout) = (IF hin = <<>> THEN 1 ELSE Len(hin))
                     /\ \A k \in 1..Len(hin) :
                            ~HasPathArgument(hin[k]) => IsStr(hout[k][2], hostsPath)

\* C9: a document that satisfies the managed-stanza invariant, whatever the
\* order of its directives, comes back structurally equal with changed=false.
C9_IdempotentAnyOrder ==
    (built.done /\ IsDocument(corefile) /\ StanzaFirstArgument(corefile)) =>
        (~built.err /\ SameDocument(built.text, corefile) /\ ~built.needUpdate)

\* the same for the documents whose lines are already in lexicographic
\* order of their directive names
C9_IdempotentWhenOrdered ==
    (built.done /\ IsDocument(corefile) /\ StanzaOwnArgument(corefile)
        /\ InEmissionOrder(corefile)) =>
        (~built.err /\ SameDocument(built.text, corefile) /\ ~built.needUpdate)

\* the ordered documents without an argument behind a nested block do come
\* back equal, and equal as a text
\* when they came in the layout FromJSON writes
C9_IdempotentPlainLines ==
    (built.done /\ IsDocument(corefile) /\ StanzaOwnArgument(corefile)
        /\ InEmissionOrder(corefile) /\ ~BehindBlock(corefile)) =>
        /\ ~built.err /\ SameDocument(built.text, corefile) /\ ~built.needUpdate
        /\ FromJSON(DocumentOf(corefile)) = corefile => built.text = corefile

\* C10: BuildNewCoreFile applied to its own output, as the next run applies
\* it to the Corefile the first run stored, returns that output and
\* changed=false.
C10_FixedPoint ==
    rebuilt.done => (~rebuilt.err /\ rebuilt.text = built.text /\ ~rebuilt.needUpdate)

\* for the documents without an argument behind a nested block the second
\* application does return the output of the first, with changed=false
C10_FixedPointPlainLines ==
    (rebuilt.done /\ ~BehindBlock(corefile)) =>
        (~rebuilt.err /\ rebuilt.text = built.text /\ ~rebuilt.needUpdate)

\* C11: the changed flag BuildNewCoreFile returns is exact: it is false
\* exactly when the returned document equals the input document, so an
\* output that differs from the input in the order of its lines alone is
\* reported with changed = true.
C11_ChangedExact ==
    (built.done /\ ~built.err) => (~built.needUpdate <=> SameDocument(built.text, corefile))

\* C12: for the empty document BuildNewCoreFile returns a document that
\* holds the line hosts /etc/coredns-dir/hosts and reports changed = true.
C12_EmptyDocument ==
    (built.done /\ corefile = <<>>) =>
        /\ ~built.err
        /\ built.needUpdate
        /\ \E i \in 1..(Len(built.text) - 1) :
              built.text[i].Text = "hosts" /\ built.text[i + 1].Text = hostsPath

\* the nested bodies among the items of a line
BlkItems(item) == { item[i].val : i \in { j \in 2..Len(item) : item[j].kind = "blk" } }

\* the hosts lines of block b of a text
HostsLinesIn(text, b) == HostsLinesOf(Bodies(text)[b])

\* C13: a hosts line that comes without the canonical path leaves
\* BuildNewCoreFile with the path as its first argument and with its nested
\* body, and changed = true: hosts { fallthrough } becomes
\* hosts /etc/coredns-dir/hosts { fallthrough }.
C13_KeepsNestedBody ==
    (built.done /\ ~built.err) =>
        \A b \in 1..Len(Bodies(corefile)) :
            \A k \in 1..Len(HostsLinesIn(corefile, b)) :
                ~HasPathArgument(HostsLinesIn(corefile, b)[k]) =>
                    /\ built.needUpdate
                    /\ Len(HostsLinesIn(built.text, b)) = Len(HostsLinesIn(corefile, b))
                    /\ IsStr(HostsLinesIn(built.text, b)[k][2], hostsPath)
                    /\ BlkItems(HostsLinesIn(corefile, b)[k])
                           \subseteq BlkItems(HostsLinesIn(built.text, b)[k])

\* the canonical path is a token of a line of a nested body of the line
HasPathNested(item) ==
    \E i \in 2..Len(item) :
        /\ item[i].kind = "blk"
        /\ \E l \in 1..Len(item[i].val) :
               \E j \in 1..Len(item[i].val[l]) : IsStr(item[i].val[l][j], hostsPath)

\* the canonical path is found in the line, at top level or one level down
FoundAnywhere(item) == HasPathArgument(item) \/ HasPathNested(item)

\* C27: a hosts line that has the canonical path among its top-level tokens
\* or among the tokens of its nested body leaves BuildNewCoreFile as it came,
\* tokens and nested body, and does not make changed true: a document whose
\* blocks all have hosts lines, all of them such lines, gives changed=false.
C27_FoundAnywhereUnchanged ==
    (built.done /\ ~built.err) =>
        /\ \A b \in 1..Len(Bodies(corefile)) :
              \A k \in 1..Len(HostsLinesIn(corefile, b)) :
                  FoundAnywhere(HostsLinesIn(corefile, b)[k]) =>
                      /\ Len(HostsLinesIn(built.text, b)) = Len(HostsLinesIn(corefile, b))
                      /\ HostsLinesIn(built.text, b)[k] = HostsLinesIn(corefile, b)[k]
        /\ (\A b \in 1..Len(Bodies(corefile)) :
               /\ HostsLinesIn(corefile, b) # <<>>
               /\ \A k \in 1..Len(HostsLinesIn(corefile, b)) :
                      FoundAnywhere(HostsLinesIn(corefile, b)[k]))
           => ~built.needUpdate

\* the lines of directive dir in a body, in the body's order
LinesNamed(body, dir) ==
    LET named(item) == IsStr(item[1], dir) IN SelectSeq(body, named)

\* the directive names of a body
NamesIn(body) == { body[i][1].val : i \in 1..Len(body) }

\* C28: the document BuildNewCoreFile returns has the blocks of the input,
\* with the same keys in the same order; in every block the lines stand in
\* lexicographic order of their directive names, and for every directive
\* other than hosts the block has exactly the lines the input block had, in
\* their order, each with its tokens and nested body.
C28_UnrelatedPreserved ==
    (built.done /\ ~built.err) =>
        LET ins == Bodies(corefile)
            outs == Bodies(built.text)
        IN /\ ~Parse(built.text).err
           /\ KeysOf(built.text) = KeysOf(corefile)
           /\ Len(outs) = Len(ins)
           /\ InEmissionOrder(built.text)
           /\ \A b \in 1..Len(ins) :
                  /\ NamesIn(outs[b]) = NamesIn(ins[b]) \cup {"hosts"}
                  /\ \A dir \in NamesIn(ins[b]) \ {"hosts"} :
                         LinesNamed(outs[b], dir) = LinesNamed(ins[b], dir)

\* the same for the documents without an argument behind a nested block
C28_PlainLinesPreserved ==
    (built.done /\ ~built.err /\ ~BehindBlock(corefile)) =>
        LET ins == Bodies(corefile)
            outs == Bodies(built.text)
        IN /\ ~Parse(built.text).err
           /\ KeysOf(built.text) = KeysOf(corefile)
           /\ Len(outs) = Len(ins)
           /\ InEmissionOrder(built.text)
           /\ \A b \in 1..Len(ins) :
                  /\ NamesIn(outs[b]) = NamesIn(ins[b]) \cup {"hosts"}
                  /\ \A dir \in NamesIn(ins[b]) \ {"hosts"} :
                         LinesNamed(outs[b], dir) = LinesNamed(ins[b], dir)


====
